---------------------------- MODULE Spec2Model ----------------------------
(***************************************************************************)
(* The FT8 LDPC(174,91) decoder of the ft8 library (ldpc.cpp):             *)
(*   ldpc_check, ldpc_decode (probability domain), ldpc_decode_log (log    *)
(*   likelihood domain).                                                   *)
(*                                                                         *)
(* Scaling.  The code is written for 174 bits and 83 checks and reads the  *)
(* Tanner graph from the tables Nm[83][7] and Mn[174][3] of arrays.h,      *)
(* which is not among the sources.  The model keeps the shape of the       *)
(* tables (seven 1-based slots per check, 0 = absent; three 1-based slots  *)
(* per bit) and takes the number of bits and of checks as the bounds NBits *)
(* and NChecks; the tables are generated for these sizes.                  *)
(***************************************************************************)
EXTENDS Integers, Sequences, FiniteSets, TLC

\* ------------------------------------------------------------------ bounds
NBits == 13          \* codeword length (174 in the code)
NChecks == 6         \* number of parity checks (83 in the code)

\* ------------------------------------------------------- program constants
NmCols == 7          \* slots per row of Nm
MnCols == 3          \* slots per row of Mn

Bits == 0 .. (NBits - 1)
Checks == 0 .. (NChecks - 1)

\* ------------------------------------------------------------------ tables
\* Mn[i]: the three checks (1-based) that bit i takes part in.
Mn ==
  [i \in Bits |->
     LET b == i \div NChecks
         base == i % NChecks
     IN  [k \in 0 .. (MnCols - 1) |->
            IF k = 0 THEN base + 1
            ELSE IF k = 1 THEN ((base + 1 + b) % NChecks) + 1
            ELSE ((base + 3 + 2 * b) % NChecks) + 1]]

\* The bits (1-based) of check j, in increasing order.
NmMembers(j) == {i + 1 : i \in {i2 \in Bits : \E k \in 0 .. (MnCols - 1) : Mn[i2][k] = j + 1}}

\* The k-th smallest (k = 0, 1, ...) element of the set S of integers.
KthSmallest(S, k) == CHOOSE x \in S : Cardinality({y \in S : y < x}) = k

\* Nm[j]: the bits (1-based) of check j; unused slots hold 0.
Nm ==
  [j \in Checks |->
     [k \in 0 .. (NmCols - 1) |->
        IF k < Cardinality(NmMembers(j)) THEN KthSmallest(NmMembers(j), k) ELSE 0]]

\* The bits (0-based) in the slots of row j of Nm.
RowBits(j) == {Nm[j][k] - 1 : k \in 0 .. (NmCols - 1)} \ {-1}

\* ------------------------------------------------------------------- REAL
(***************************************************************************)
(* REAL is float (IEEE 754 binary32).  A value is [s, m, e], standing for  *)
(* (-1)^s * m * 2^e with an integer significand m < 2^MantBits:            *)
(*   normal     2^(MantBits-1) <= m  and  ExpMin <= e <= ExpMax            *)
(*   subnormal  m < 2^(MantBits-1)   and  e = ExpMin                       *)
(*   zero       m = 0, e = ExpMin, s = 0  (the sign of zero is not kept:   *)
(*              the code only compares zeros, and -0.0 == 0.0)             *)
(*   infinity   m = 0, e = ExpMax + 1                                      *)
(* Every operation rounds to nearest, ties to even, as the hardware does.  *)
(* All intermediate integers stay below 2^31.                              *)
(***************************************************************************)
MantBits == 24       \* FLT_MANT_DIG
ExpMin == -149       \* exponent of the least subnormal, 2^-149
ExpMax == 104        \* FLT_MAX = (2^24 - 1) * 2^104
DblBits == 53        \* DBL_MANT_DIG, for the expressions the code evaluates in double

Max(a, b) == IF a >= b THEN a ELSE b
Min(a, b) == IF a <= b THEN a ELSE b

HalfMant == 2^(MantBits - 1)
FullMant == 2^MantBits

FZero == [s |-> 0, m |-> 0, e |-> ExpMin]
FInf(s) == [s |-> s, m |-> 0, e |-> ExpMax + 1]
IsInf(x) == x.e > ExpMax
IsZero(x) == x.m = 0 /\ x.e <= ExpMax

BitLen4(n) == IF n < 4 THEN (IF n < 2 THEN n ELSE 2) ELSE (IF n < 8 THEN 3 ELSE 4)
BitLen8(n) == IF n < 16 THEN BitLen4(n) ELSE 4 + BitLen4(n \div 16)
BitLen16(n) == IF n < 256 THEN BitLen8(n) ELSE 8 + BitLen8(n \div 256)
\* Number of binary digits of n, 0 <= n < 2^31.
BitLen(n) == IF n < 65536 THEN BitLen16(n) ELSE 16 + BitLen16(n \div 65536)

\* The value with sign s and magnitude m * 2^e, m < 2^MantBits already in range.
MakeF(s, m, e) ==
  IF m = 0 THEN FZero
  ELSE IF e > ExpMax THEN FInf(s)
  ELSE [s |-> s, m |-> m, e |-> e]

\* Round (-1)^s * (M + f) * 2^E to float, where 0 < M < 2^31 and f is a
\* fraction in [0,1) that is nonzero iff sticky.  With sticky set, M carries
\* at least MantBits + 1 digits.
RoundF(s, M, E, sticky) ==
  IF M = 0 THEN FZero
  ELSE LET L == BitLen(M)
           sh == Max(L - MantBits, ExpMin - E)
       IN  IF sh <= 0 THEN MakeF(s, M * 2^(0 - sh), E + sh)
           ELSE IF sh > L THEN FZero
           ELSE LET q == M \div 2^sh
                    r == M % 2^sh
                    half == 2^(sh - 1)
                    up == r > half \/ (r = half /\ (sticky \/ q % 2 = 1))
                    q1 == IF up THEN q + 1 ELSE q
                IN  IF q1 = FullMant THEN MakeF(s, HalfMant, E + sh + 1)
                    ELSE MakeF(s, q1, E + sh)

\* The float of the integer n, |n| < 2^31.
IntToF(n) == IF n >= 0 THEN RoundF(0, n, 0, FALSE) ELSE RoundF(1, 0 - n, 0, FALSE)

FNeg(x) == IF x.m = 0 /\ x.e <= ExpMax THEN x ELSE [x EXCEPT !.s = 1 - x.s]

\* x * 2^k, exact unless it leaves the range.
FScale(x, k) == IF x.m = 0 THEN x ELSE RoundF(x.s, x.m, x.e + k, FALSE)

\* The product x * y of two integers below 2^24, as <<hi, lo>> with
\* x * y = hi * 2^24 + lo and lo < 2^24.
Mul24(x, y) ==
  LET xh == x \div 4096
      xl == x % 4096
      yh == y \div 4096
      yl == y % 4096
      mid == xh * yl + xl * yh
      low == (mid % 4096) * 4096 + xl * yl
  IN  <<xh * yh + (mid \div 4096) + (low \div FullMant), low % FullMant>>

\* Round (-1)^s * (hi * 2^24 + lo) * 2^E to float; hi, lo < 2^24.
RoundPair(s, hi, lo, E) ==
  LET k == BitLen(hi) - 6
  IN  IF k <= 0 THEN RoundF(s, hi * FullMant + lo, E, FALSE)
      ELSE RoundF(s, hi * 2^(MantBits - k) + (lo \div 2^k), E + k, lo % 2^k # 0)

\* float * float
FMul(a, b) ==
  LET s == (a.s + b.s) % 2
  IN  IF IsInf(a) \/ IsInf(b) THEN FInf(s)
      ELSE IF a.m = 0 \/ b.m = 0 THEN FZero
      ELSE LET p == Mul24(a.m, b.m) IN RoundPair(s, p[1], p[2], a.e + b.e)

\* |a| >= |b| for finite a, b.
MagGe(a, b) == a.e > b.e \/ (a.e = b.e /\ a.m >= b.m)

\* float + float (finite operands)
FAdd(a, b) ==
  IF a.m = 0 THEN b
  ELSE IF b.m = 0 THEN a
  ELSE LET big == IF MagGe(a, b) THEN a ELSE b
           small == IF MagGe(a, b) THEN b ELSE a
           d == big.e - small.e
           Mb == big.m * 32
           lost == d - 5
           Ms == IF lost <= 0 THEN small.m * 2^(0 - lost)
                 ELSE IF lost > MantBits THEN 0
                 ELSE small.m \div 2^lost
           st == IF lost <= 0 THEN FALSE
                 ELSE IF lost > MantBits THEN TRUE
                 ELSE small.m % 2^lost # 0
       IN  IF big.s = small.s THEN RoundF(big.s, Mb + Ms, big.e - 5, st)
           ELSE RoundF(big.s, Mb - Ms - (IF st THEN 1 ELSE 0), big.e - 5, st)

FSub(a, b) == FAdd(a, FNeg(b))

\* x with its significand brought to MantBits digits (x nonzero, finite); the
\* exponent may then lie below ExpMin.
Normal(x) ==
  LET k == MantBits - BitLen(x.m) IN [s |-> x.s, m |-> x.m * 2^k, e |-> x.e - k]

\* One step of long division: bits more quotient digits of r / d, for a
\* remainder r < d < 2^24 and a quotient qr[1] so far.
DivChunk(qr, d, bits) ==
  <<qr[1] * 2^bits + ((qr[2] * 2^bits) \div d), (qr[2] * 2^bits) % d>>

\* float / float (b nonzero)
FDiv(a, b) ==
  LET s == (a.s + b.s) % 2
  IN  IF IsInf(a) THEN FInf(s)
      ELSE IF IsInf(b) \/ a.m = 0 THEN FZero
      ELSE LET na == Normal(a)
               nb == Normal(b)
               q0 == <<na.m \div nb.m, na.m % nb.m>>
               q1 == DivChunk(q0, nb.m, 6)
               q2 == DivChunk(q1, nb.m, 6)
               q3 == DivChunk(q2, nb.m, 6)
               q4 == DivChunk(q3, nb.m, 6)
               q5 == DivChunk(q4, nb.m, 3)
           IN  RoundF(s, q5[1], na.e - nb.e - 27, q5[2] # 0)

FOne == [s |-> 0, m |-> HalfMant, e |-> 1 - MantBits]
FHalf == [s |-> 0, m |-> HalfMant, e |-> 0 - MantBits]

(***************************************************************************)
(* Expressions with a double constant (1.0, 0.5, 2.0) are evaluated in     *)
(* double and rounded to float on assignment.  Where one such operation    *)
(* has float operands, rounding its double result to float gives the       *)
(* correctly rounded float result (FAdd, FSub, FDiv above).  The two       *)
(* expressions below chain two double operations and are rounded twice:    *)
(* first to DblBits digits, then to MantBits digits.                       *)
(***************************************************************************)
\* Round (-1)^s * (L2 * 2^48 + L1 * 2^24 + L0) * 2^E, L2 < 2^29, first to
\* double, then to float.
RoundDbl3(s, L2, L1, L0, E) ==
  IF L2 = 0 THEN RoundPair(s, L1, L0, E)
  ELSE LET c == Max(0, BitLen(L2) - 5)            \* digits beyond DblBits
           C == L0 % 2^c
           A == IF c <= 19 THEN L2 * 2^(19 - c) + (L1 \div 2^(5 + c))
                ELSE L2 \div 2^(c - 19)
           B == IF c <= 19 THEN (L1 % 2^(5 + c)) * 2^(24 - c) + (L0 \div 2^c)
                ELSE (L2 % 2^(c - 19)) * 2^(48 - c) + L1 * 2^(24 - c) + (L0 \div 2^c)
           upD == c > 0 /\ (C > 2^(c - 1) \/ (C = 2^(c - 1) /\ B % 2 = 1))
           B1 == IF upD THEN B + 1 ELSE B
           A2 == IF B1 = 2^(DblBits - MantBits) THEN A + 1 ELSE A
           B2 == IF B1 = 2^(DblBits - MantBits) THEN 0 ELSE B1
       IN  RoundF(s, A2 * 32 + (B2 \div FullMant), E + c + MantBits, B2 % FullMant # 0)

\* q * (1.0 - x) for floats q >= 0 and 0 <= x <= 1:  "q1 *= 1.0 - e[j2][i]".
MulOneMinus(q, x) ==
  IF q.m = 0 THEN FZero
  ELSE IF x.m = 0 THEN q
  ELSE IF x.e < 0 - DblBits THEN q     \* x < 2^-29: the product rounds back to q
  ELSE LET k == 0 - x.e                \* 1.0 - x = (2^k - x.m) * 2^x.e, exact in double
           wh == IF k <= 30 THEN (2^k - x.m) \div FullMant ELSE 2^(k - MantBits) - 1
           wl == IF k <= 30 THEN (2^k - x.m) % FullMant ELSE FullMant - x.m
           p0 == Mul24(q.m, wl)
           p1 == Mul24(q.m, wh % FullMant)
           s1 == p0[1] + p1[2]
       IN  RoundDbl3(q.s, p1[1] + q.m * (wh \div FullMant) + (s1 \div FullMant),
                     s1 % FullMant, p0[2], q.e + x.e)

\* Numbers below 2^54 as <<h, l>> = h * 2^24 + l, l < 2^24.
WideGe(x, y) == x[1] > y[1] \/ (x[1] = y[1] /\ x[2] >= y[2])
WideSub(x, y) ==
  IF x[2] >= y[2] THEN <<x[1] - y[1], x[2] - y[2]>>
  ELSE <<x[1] - y[1] - 1, x[2] + FullMant - y[2]>>
WideDbl(x) == <<2 * x[1] + ((2 * x[2]) \div FullMant), (2 * x[2]) % FullMant>>
WideAdd(x, y) == <<x[1] + y[1] + ((x[2] + y[2]) \div FullMant), (x[2] + y[2]) % FullMant>>
WidePow2(k) == IF k >= MantBits THEN <<2^(k - MantBits), 0>> ELSE <<0, 2^k>>
WideBitLen(x) == IF x[1] > 0 THEN MantBits + BitLen(x[1]) ELSE BitLen(x[2])

\* n more quotient digits of rem / S (rem < S), appended to q: <<q, rem>>.
RECURSIVE DivBits(_, _, _, _)
DivBits(rem, S, n, q) ==
  IF n = 0 THEN <<q, rem>>
  ELSE LET d == WideDbl(rem)
       IN  IF WideGe(d, S) THEN DivBits(WideSub(d, S), S, n - 1, 2 * q + 1)
           ELSE DivBits(d, S, n - 1, 2 * q)

\* 1.0 / (1.0 + r) for a float r >= 0 or infinite:  "1.0 / (1.0 + (q1 / q0))".
RecipOnePlus(r) ==
  IF IsInf(r) THEN FZero
  ELSE IF r.m = 0 \/ r.e <= -50 THEN FOne          \* r < 2^-26
  ELSE IF r.e >= 30 THEN FDiv(FOne, r)             \* 1.0 + r = r in double
  ELSE LET w == Min(r.e, 0)                        \* 1.0 + r = S * 2^w, exact in double
           S == IF r.e >= 0
                THEN WideAdd(IF r.e >= MantBits THEN <<r.m * 2^(r.e - MantBits), 0>>
                             ELSE <<r.m \div 2^(MantBits - r.e),
                                    (r.m % 2^(MantBits - r.e)) * 2^r.e>>,
                             <<0, 1>>)
                ELSE WideAdd(WidePow2(0 - r.e), <<0, r.m>>)
           n == WideBitLen(S)
       IN  IF S = WidePow2(n - 1) THEN RoundF(0, 1, 1 - n - w, FALSE)
           ELSE LET qa == DivBits(WidePow2(n - 1), S, MantBits, 0)
                    qb == DivBits(qa[2], S, DblBits - MantBits, 0)
                    qg == DivBits(qb[2], S, 1, 0)
                    B1 == qb[1] + qg[1]
                    A2 == IF B1 = 2^(DblBits - MantBits) THEN qa[1] + 1 ELSE qa[1]
                    B2 == IF B1 = 2^(DblBits - MantBits) THEN 0 ELSE B1
                IN  RoundF(0, A2 * 32 + (B2 \div FullMant), 0 - n - 28 - w,
                           B2 % FullMant # 0)

\* a < b, a <= b for finite a, b.
FLt(a, b) ==
  IF a.s # b.s THEN a.s = 1
  ELSE IF a.s = 0 THEN ~MagGe(a, b)
  ELSE ~MagGe(b, a)
FLe(a, b) == ~FLt(b, a)

\* ------------------------------------------------------------- ldpc_check
\* x ^= codeword[i1] on 0/1 values.
Xor(a, b) == (a + b) % 2

\* The inner loop of ldpc_check from slot ii1 on, with x so far.
RECURSIVE ldpc_check_row(_, _, _, _)
ldpc_check_row_noskip(codeword, j, ii1, x) ==
  IF ii1 >= NmCols THEN x
  ELSE LET i1 == Nm[j][ii1] - 1
       IN  ldpc_check_row(codeword, j, ii1 + 1,
                          Xor(x, codeword[IF i1 >= 0 THEN i1 ELSE 0]))

ldpc_check_row(codeword, j, ii1, x) ==
  IF ii1 >= NmCols THEN x
  ELSE LET i1 == Nm[j][ii1] - 1
       IN  ldpc_check_row(codeword, j, ii1 + 1,
                          IF i1 >= 0 THEN Xor(x, codeword[i1]) ELSE x)

\* The outer loop of ldpc_check from check j on, with the score so far.
RECURSIVE ldpc_check_from(_, _, _)
ldpc_check_from(codeword, j, score) ==
  IF j >= NChecks THEN score
  ELSE ldpc_check_from(codeword, j + 1,
                       IF ldpc_check_row(codeword, j, 0, 0) = 0 THEN score + 1 ELSE score)

ldpc_check(codeword) == ldpc_check_from(codeword, 0, 0)

\* ------------------------------------------------------------------- state
VARIABLES
  pc,           \* where the call stands
  fn,           \* "check", "prob" (ldpc_decode) or "log" (ldpc_decode_log)
  llcodeword,   \* the input log-likelihoods (llcodeword[] / codeword[] of the caller)
  iters,        \* the iteration budget
  plain, ok,    \* the outputs
  codeword,     \* ldpc_decode: REAL codeword[174], the probabilities P(zero)
  m, e,         \* REAL m[83][174], e[83][174]
  iter,         \* the loop counter
  cw, score,    \* the hard decision of the current iteration and its score
  best_score, best_cw,
  ncall,        \* 1 in the first call, 2 in a repeated call on the same input
  first,        \* <<plain, ok>> of the first call once a second one has begun
  hist,         \* the hard decision and score of every iteration of this call so far
  crc,          \* a call of ft8_crc: its parameters, locals and position
  heap,         \* the blocks of malloc: their contents, <<>> when free
  gj,           \* a call of gauss_jordan: its parameters, locals and position
  th,           \* a call of fast_tanh: its argument and result
  procs         \* two calls running concurrently, each with its own frame

\* The state of the calls of the other functions.
aux == <<crc, heap, gj, th, procs>>

vars == <<pc, fn, llcodeword, iters, plain, ok, codeword, m, e, iter, cw, score,
          best_score, best_cw, ncall, first, hist, aux>>

\* No call of that function is in progress.
Idle == [pc |-> "idle"]

\* The blocks malloc can hand out; none is in use.
Blocks == {1, 2}
NoHeap == [b \in Blocks |-> <<>>]

AuxIdle ==
  /\ crc = Idle
  /\ heap = NoHeap
  /\ gj = Idle
  /\ th = Idle
  /\ procs = Idle

\* What an int array on the stack may hold before it is written.
StackInts == {[i \in Bits |-> g] : g \in {0, 32764}}

ZeroMatrix == [j \in Checks |-> [i \in Bits |-> FZero]]

\* ------------------------------------------------------------ ldpc_decode
\* p = ex / (1.0 + ex) with ex = expl(x), for the log-likelihoods the model
\* feeds in: the float values the compiled code produces.
ProbOfLLR(x) ==
  CASE x = IntToF(-20) -> [s |-> 0, m |-> 9282611, e |-> -52]
    [] x = IntToF(-10) -> [s |-> 0, m |-> 12478871, e |-> -38]
    [] x = IntToF(-1) -> [s |-> 0, m |-> 9024177, e |-> -25]
    [] x = IntToF(0) -> [s |-> 0, m |-> 8388608, e |-> -24]
    [] x = IntToF(1) -> [s |-> 0, m |-> 12265128, e |-> -24]
    [] x = IntToF(10) -> [s |-> 0, m |-> 16776454, e |-> -24]
    [] x = IntToF(20) -> [s |-> 0, m |-> 8388608, e |-> -23]

\* float tmp = 1.0 - 2.0 * (1.0 - m[j][i2])
SignedProb(x) == FSub(FScale(x, 1), FOne)

\* The loop over ii2: a, multiplied by tmp for every bit of check j but i1;
\* t[i2] is the tmp of m[j][i2] (the same each time the loop comes to i2).
RECURSIVE ldpc_decode_a(_, _, _, _, _)
ldpc_decode_a(t, j, i1, ii2, a) ==
  IF ii2 >= NmCols THEN a
  ELSE LET i2 == Nm[j][ii2] - 1
       IN  ldpc_decode_a(t, j, i1, ii2 + 1,
                         IF i2 >= 0 /\ i2 # i1 THEN FMul(a, t[i2]) ELSE a)

\* The check update: e[j][i1] = 0.5 + 0.5 * a for every bit i1 of every check j.
ldpc_decode_e(mm, ee) ==
  [j \in Checks |->
     LET t == [i2 \in RowBits(j) |-> SignedProb(mm[j][i2])]
     IN  [i \in Bits |->
            IF i \in RowBits(j)
            THEN FAdd(FHalf, FScale(ldpc_decode_a(t, j, i, 0, FOne), -1))
            ELSE ee[j][i]]]

\* <<q0, q1>> of the hard decision for bit i, from slot jj of Mn[i] on.
RECURSIVE ldpc_decode_q_all(_, _, _, _)
ldpc_decode_q_all(ee, i, jj, q) ==
  IF jj >= MnCols THEN q
  ELSE LET j2 == Mn[i][jj] - 1
       IN  ldpc_decode_q_all(ee, i, jj + 1,
                             <<FMul(q[1], ee[j2][i]), MulOneMinus(q[2], ee[j2][i])>>)

\* <<q0, q1>> of the message of bit i to check j1, from slot ji2 of Mn[i] on.
RECURSIVE ldpc_decode_q_others(_, _, _, _, _)
ldpc_decode_q_others(ee, i, j1, ji2, q) ==
  IF ji2 >= MnCols THEN q
  ELSE LET j2 == Mn[i][ji2] - 1
       IN  ldpc_decode_q_others(ee, i, j1, ji2 + 1,
                                IF j1 # j2
                                THEN <<FMul(q[1], ee[j2][i]), MulOneMinus(q[2], ee[j2][i])>>
                                ELSE q)

\* ldpc_decode_p, but with p = 0 where q0 is 0, as 1 / (1 + q1 / q0) would
\* give for a q1 above 0.
ldpc_decode_p_zero(q) == IF q[1].m = 0 THEN FZero ELSE RecipOnePlus(FDiv(q[2], q[1]))

\* p = 1.0 if q0 == 0.0, else 1.0 / (1.0 + (q1 / q0))
ldpc_decode_p(q) == IF q[1].m = 0 THEN FOne ELSE RecipOnePlus(FDiv(q[2], q[1]))

\* The hard decision: cw[i] = (p <= 0.5).
ldpc_decode_cw(cwd, ee) ==
  [i \in Bits |->
     IF FLe(ldpc_decode_p(ldpc_decode_q_all(ee, i, 0, <<cwd[i], FSub(FOne, cwd[i])>>)), FHalf)
     THEN 1 ELSE 0]

\* The variable update: m[j1][i] = p for every check j1 of every bit i.
ldpc_decode_m(cwd, mm, ee) ==
  [j \in Checks |->
     [i \in Bits |->
        IF \E ji1 \in 0 .. (MnCols - 1) : Mn[i][ji1] - 1 = j
        THEN ldpc_decode_p(ldpc_decode_q_others(ee, i, j, 0, <<cwd[i], FSub(FOne, cwd[i])>>))
        ELSE mm[j][i]]]

\* ldpc_decode_init, but converting llcodeword to probabilities in place.
ldpc_decode_init_inplace ==
  /\ pc = "entry" /\ fn = "prob"
  /\ best_score' = -1
  /\ best_cw' \in StackInts
  /\ llcodeword' = [i \in Bits |-> ProbOfLLR(llcodeword[i])]
  /\ codeword' = llcodeword'
  /\ m' = [j \in Checks |-> [i \in Bits |-> ProbOfLLR(llcodeword[i])]]
  /\ e' = ZeroMatrix
  /\ iter' = 0
  /\ pc' = "loop"
  /\ UNCHANGED <<aux, fn, iters, plain, ok, cw, score, ncall, first>>
  /\ hist' = <<>>

\* Entry: the locals, the conversion to probabilities, m and e.
ldpc_decode_init ==
  /\ pc = "entry" /\ fn = "prob"
  /\ best_score' = -1
  /\ best_cw' \in StackInts
  /\ codeword' = [i \in Bits |-> ProbOfLLR(llcodeword[i])]
  /\ m' = [j \in Checks |-> [i \in Bits |-> ProbOfLLR(llcodeword[i])]]
  /\ e' = ZeroMatrix
  /\ iter' = 0
  /\ pc' = "loop"
  /\ UNCHANGED <<aux, fn, llcodeword, iters, plain, ok, cw, score, ncall, first>>
  /\ hist' = <<>>

\* ldpc_decode_loop, but with iter <= iters.
ldpc_decode_loop_more ==
  /\ pc = "loop" /\ fn = "prob"
  /\ pc' = IF iter <= iters THEN "check_update" ELSE "give_up"
  /\ UNCHANGED <<aux, fn, llcodeword, iters, plain, ok, codeword, m, e, iter, cw, score,
                 best_score, best_cw, ncall, first, hist>>

\* for (int iter = 0; iter < iters; iter++)
ldpc_decode_loop ==
  /\ pc = "loop" /\ fn = "prob"
  /\ pc' = IF iter < iters THEN "check_update" ELSE "give_up"
  /\ UNCHANGED <<aux, fn, llcodeword, iters, plain, ok, codeword, m, e, iter, cw, score,
                 best_score, best_cw, ncall, first, hist>>

\* ldpc_decode_check_update, but computing e in the first iteration only.
ldpc_decode_check_update_once ==
  /\ pc = "check_update" /\ fn = "prob"
  /\ e' = IF iter = 0 THEN ldpc_decode_e(m, e) ELSE e
  /\ pc' = "hard_decision"
  /\ UNCHANGED <<aux, fn, llcodeword, iters, plain, ok, codeword, m, iter, cw, score,
                 best_score, best_cw, ncall, first, hist>>

ldpc_decode_check_update ==
  /\ pc = "check_update" /\ fn = "prob"
  /\ e' = ldpc_decode_e(m, e)
  /\ pc' = "hard_decision"
  /\ UNCHANGED <<aux, fn, llcodeword, iters, plain, ok, codeword, m, iter, cw, score,
                 best_score, best_cw, ncall, first, hist>>

ldpc_decode_hard_decision ==
  /\ pc = "hard_decision" /\ fn = "prob"
  /\ cw' = ldpc_decode_cw(codeword, e)
  /\ score' = ldpc_check(cw')
  /\ pc' = "early_exit"
  /\ UNCHANGED <<aux, fn, llcodeword, iters, plain, ok, codeword, m, e, iter,
                 best_score, best_cw, ncall, first>>
  /\ hist' = Append(hist, [cw |-> cw', score |-> score'])

\* ldpc_decode_success, but returning the best word so far, not this one.
ldpc_decode_success_best ==
  /\ pc = "early_exit" /\ fn = "prob"
  /\ score = NChecks
  /\ plain' = best_cw
  /\ ok' = NChecks
  /\ pc' = "done"
  /\ UNCHANGED <<aux, fn, llcodeword, iters, codeword, m, e, iter, cw, score,
                 best_score, best_cw, ncall, first, hist>>

\* if (score == 83) { plain = cw; *ok = 83; return; }
ldpc_decode_success ==
  /\ pc = "early_exit" /\ fn = "prob"
  /\ score = NChecks
  /\ plain' = cw
  /\ ok' = NChecks
  /\ pc' = "done"
  /\ UNCHANGED <<aux, fn, llcodeword, iters, codeword, m, e, iter, cw, score,
                 best_score, best_cw, ncall, first, hist>>

\* ldpc_decode_best, but with score >= best_score.
ldpc_decode_best_ge ==
  /\ pc = "early_exit" /\ fn = "prob"
  /\ score # NChecks
  /\ best_cw' = IF score >= best_score THEN cw ELSE best_cw
  /\ best_score' = IF score >= best_score THEN score ELSE best_score
  /\ pc' = "var_update"
  /\ UNCHANGED <<aux, fn, llcodeword, iters, plain, ok, codeword, m, e, iter, cw, score,
                 ncall, first, hist>>

\* ldpc_decode_best, but keeping the latest word whatever its score.
ldpc_decode_best_last ==
  /\ pc = "early_exit" /\ fn = "prob"
  /\ score # NChecks
  /\ best_cw' = cw
  /\ best_score' = score
  /\ pc' = "var_update"
  /\ UNCHANGED <<aux, fn, llcodeword, iters, plain, ok, codeword, m, e, iter, cw, score,
                 ncall, first, hist>>

\* if (score > best_score) { best_cw = cw; best_score = score; }
ldpc_decode_best ==
  /\ pc = "early_exit" /\ fn = "prob"
  /\ score # NChecks
  /\ best_cw' = IF score > best_score THEN cw ELSE best_cw
  /\ best_score' = IF score > best_score THEN score ELSE best_score
  /\ pc' = "var_update"
  /\ UNCHANGED <<aux, fn, llcodeword, iters, plain, ok, codeword, m, e, iter, cw, score,
                 ncall, first, hist>>

ldpc_decode_var_update ==
  /\ pc = "var_update" /\ fn = "prob"
  /\ m' = ldpc_decode_m(codeword, m, e)
  /\ iter' = iter + 1
  /\ pc' = "loop"
  /\ UNCHANGED <<aux, fn, llcodeword, iters, plain, ok, codeword, e, cw, score,
                 best_score, best_cw, ncall, first, hist>>

\* decode didn't work, return best guess.
ldpc_decode_give_up ==
  /\ pc = "give_up" /\ fn = "prob"
  /\ plain' = best_cw
  /\ ok' = best_score
  /\ pc' = "done"
  /\ UNCHANGED <<aux, fn, llcodeword, iters, codeword, m, e, iter, cw, score,
                 best_score, best_cw, ncall, first, hist>>

\* -------------------------------------------------------------- fast_tanh
F7_6 == [s |-> 0, m |-> 15938355, e |-> -21]      \* (float)7.6
F0_999 == [s |-> 0, m |-> 16760439, e |-> -24]    \* (float)0.999

F135135 == IntToF(135135)
F17325 == IntToF(17325)
F378 == IntToF(378)
F62370 == IntToF(62370)
F3150 == IntToF(3150)
F28 == IntToF(28)

\* The comparisons with the double constants -7.6 and 7.6 come out as the float
\* comparisons with (float)7.6: no float lies between 7.6 and (float)7.6.
\* a / b of fast_tanh, with x2 = x * x.
fast_tanh_ratio(x, x2) ==
  FDiv(FMul(x, FAdd(F135135, FMul(x2, FAdd(F17325, FMul(x2, FAdd(F378, x2)))))),
       FAdd(F135135, FMul(x2, FAdd(F62370, FMul(x2, FAdd(F3150, FMul(x2, F28)))))))

fast_tanh(x) ==
  IF FLt(x, FNeg(F7_6)) THEN FNeg(F0_999)
  ELSE IF FLt(F7_6, x) THEN F0_999
  ELSE fast_tanh_ratio(x, FMul(x, x))

\* -------------------------------------------------------------------- log
(***************************************************************************)
(* The library logarithm, for a float y > 0.  y = f * 2^k with f between   *)
(* sqrt(1/2) and sqrt(2); log f = 2 atanh z, z = (f - 1) / (f + 1), by the *)
(* series 2z (1 + z^2/3 + ... + z^10/11), evaluated in float.  The result  *)
(* is within a few units in the last place of the exact logarithm; the     *)
(* library's rounding of the last digit is not reproduced.                 *)
(***************************************************************************)
FLn2 == [s |-> 0, m |-> 11629080, e |-> -24]      \* (float)log(2)
FThird == FDiv(FOne, IntToF(3))
FFifth == FDiv(FOne, IntToF(5))
FSeventh == FDiv(FOne, IntToF(7))
FNinth == FDiv(FOne, IntToF(9))
FEleventh == FDiv(FOne, IntToF(11))

\* 1 + z2/3 + z2^2/5 + ... + z2^5/11
FLogPoly(z2) ==
  FAdd(FOne, FMul(z2, FAdd(FThird, FMul(z2, FAdd(FFifth,
    FMul(z2, FAdd(FSeventh, FMul(z2, FAdd(FNinth, FMul(z2, FEleventh))))))))))

\* 2 atanh z
FLogSeries(z) == FMul(FScale(z, 1), FLogPoly(FMul(z, z)))

\* log(f * 2^k) for f between sqrt(1/2) and sqrt(2)
FLogParts(f, k) ==
  IF k = 0 THEN FLogSeries(FDiv(FSub(f, FOne), FAdd(f, FOne)))
  ELSE FAdd(FMul(IntToF(k), FLn2), FLogSeries(FDiv(FSub(f, FOne), FAdd(f, FOne))))

\* log of n = Normal(y); hi: the significand lies above sqrt(2) * 2^23.
FLogNormal(n, hi) ==
  FLogParts([s |-> 0, m |-> n.m, e |-> IF hi THEN 0 - MantBits ELSE 1 - MantBits],
            n.e + MantBits - 1 + (IF hi THEN 1 ELSE 0))

FLog(y) == FLogNormal(Normal(y), Normal(y).m > 11863283)

\* -------------------------------------------------------- ldpc_decode_log
\* The loop over ii2: a, multiplied by fast_tanh(m[j][i2] / 2.0) for every
\* bit of check j but i1; t[i2] is that fast_tanh (the same each time the
\* loop comes to i2).
RECURSIVE ldpc_decode_log_a(_, _, _, _, _)
ldpc_decode_log_a(t, j, i1, ii2, a) ==
  IF ii2 >= NmCols THEN a
  ELSE LET i2 == Nm[j][ii2] - 1
       IN  ldpc_decode_log_a(t, j, i1, ii2 + 1,
                             IF i2 >= 0 /\ i2 # i1 THEN FMul(a, t[i2]) ELSE a)

\* ldpc_decode_log_tmp, but clamping only from 1 on.
ldpc_decode_log_tmp_one(a) ==
  IF FLe(FOne, a) THEN F7_6
  ELSE IF FLe(a, FNeg(FOne)) THEN FNeg(F7_6)
  ELSE FLog(FDiv(FAdd(FOne, a), FSub(FOne, a)))

\* tmp: 7.6 if a >= 0.999, -7.6 if a <= -0.999, else log((1 + a) / (1 - a)).
\* The comparisons with the double 0.999 come out as those with (float)0.999.
ldpc_decode_log_tmp(a) ==
  IF FLe(F0_999, a) THEN F7_6
  ELSE IF FLe(a, FNeg(F0_999)) THEN FNeg(F7_6)
  ELSE FLog(FDiv(FAdd(FOne, a), FSub(FOne, a)))

\* The check update: e[j][i1] = tmp for every bit i1 of every check j.
ldpc_decode_log_e(mm, ee) ==
  [j \in Checks |->
     LET t == [i2 \in RowBits(j) |-> fast_tanh(FScale(mm[j][i2], -1))]
     IN  [i \in Bits |->
            IF i \in RowBits(j)
            THEN ldpc_decode_log_tmp(ldpc_decode_log_a(t, j, i, 0, FOne))
            ELSE ee[j][i]]]

\* l of the hard decision for bit i, from slot jj of Mn[i] on.
RECURSIVE ldpc_decode_log_l_all(_, _, _, _)
ldpc_decode_log_l_all(ee, i, jj, l) ==
  IF jj >= MnCols THEN l
  ELSE ldpc_decode_log_l_all(ee, i, jj + 1, FAdd(l, ee[Mn[i][jj] - 1][i]))

\* ldpc_decode_log_l_others, but with the message of check j1 itself added.
ldpc_decode_log_l_others_all(ee, i, j1, ji2, l) == ldpc_decode_log_l_all(ee, i, ji2, l)

\* l of the message of bit i to check j1, from slot ji2 of Mn[i] on.
RECURSIVE ldpc_decode_log_l_others(_, _, _, _, _)
ldpc_decode_log_l_others(ee, i, j1, ji2, l) ==
  IF ji2 >= MnCols THEN l
  ELSE LET j2 == Mn[i][ji2] - 1
       IN  ldpc_decode_log_l_others(ee, i, j1, ji2 + 1,
                                    IF j1 # j2 THEN FAdd(l, ee[j2][i]) ELSE l)

\* The hard decision: cw[i] = (l <= 0.0).
ldpc_decode_log_cw(ll, ee) ==
  [i \in Bits |-> IF FLe(ldpc_decode_log_l_all(ee, i, 0, ll[i]), FZero) THEN 1 ELSE 0]

\* The variable update: m[j1][i] = l for every check j1 of every bit i.
ldpc_decode_log_m(ll, mm, ee) ==
  [j \in Checks |->
     [i \in Bits |->
        IF \E ji1 \in 0 .. (MnCols - 1) : Mn[i][ji1] - 1 = j
        THEN ldpc_decode_log_l_others(ee, i, j, 0, ll[i])
        ELSE mm[j][i]]]

ldpc_decode_log_init ==
  /\ pc = "entry" /\ fn = "log"
  /\ best_score' = -1
  /\ best_cw' \in StackInts
  /\ m' = [j \in Checks |-> [i \in Bits |-> llcodeword[i]]]
  /\ e' = ZeroMatrix
  /\ iter' = 0
  /\ pc' = "loop"
  /\ UNCHANGED <<aux, fn, llcodeword, iters, plain, ok, codeword, cw, score, ncall, first>>
  /\ hist' = <<>>

\* ldpc_decode_log_loop, but with iter + 1 < iters.
ldpc_decode_log_loop_short ==
  /\ pc = "loop" /\ fn = "log"
  /\ pc' = IF iter + 1 < iters THEN "check_update" ELSE "give_up"
  /\ UNCHANGED <<aux, fn, llcodeword, iters, plain, ok, codeword, m, e, iter, cw, score,
                 best_score, best_cw, ncall, first, hist>>

ldpc_decode_log_loop ==
  /\ pc = "loop" /\ fn = "log"
  /\ pc' = IF iter < iters THEN "check_update" ELSE "give_up"
  /\ UNCHANGED <<aux, fn, llcodeword, iters, plain, ok, codeword, m, e, iter, cw, score,
                 best_score, best_cw, ncall, first, hist>>

ldpc_decode_log_check_update ==
  /\ pc = "check_update" /\ fn = "log"
  /\ e' = ldpc_decode_log_e(m, e)
  /\ pc' = "hard_decision"
  /\ UNCHANGED <<aux, fn, llcodeword, iters, plain, ok, codeword, m, iter, cw, score,
                 best_score, best_cw, ncall, first, hist>>

ldpc_decode_log_hard_decision ==
  /\ pc = "hard_decision" /\ fn = "log"
  /\ cw' = ldpc_decode_log_cw(llcodeword, e)
  /\ score' = ldpc_check(cw')
  /\ pc' = "early_exit"
  /\ UNCHANGED <<aux, fn, llcodeword, iters, plain, ok, codeword, m, e, iter,
                 best_score, best_cw, ncall, first>>
  /\ hist' = Append(hist, [cw |-> cw', score |-> score'])

ldpc_decode_log_success ==
  /\ pc = "early_exit" /\ fn = "log"
  /\ score = NChecks
  /\ plain' = cw
  /\ ok' = NChecks
  /\ pc' = "done"
  /\ UNCHANGED <<aux, fn, llcodeword, iters, codeword, m, e, iter, cw, score,
                 best_score, best_cw, ncall, first, hist>>

\* ldpc_decode_log_best, but reached after a success too (no return).
ldpc_decode_log_best_always ==
  /\ pc = "early_exit" /\ fn = "log"
  /\ best_cw' = IF score > best_score THEN cw ELSE best_cw
  /\ best_score' = IF score > best_score THEN score ELSE best_score
  /\ pc' = "var_update"
  /\ UNCHANGED <<aux, fn, llcodeword, iters, plain, ok, codeword, m, e, iter, cw, score,
                 ncall, first, hist>>

ldpc_decode_log_best ==
  /\ pc = "early_exit" /\ fn = "log"
  /\ score # NChecks
  /\ best_cw' = IF score > best_score THEN cw ELSE best_cw
  /\ best_score' = IF score > best_score THEN score ELSE best_score
  /\ pc' = "var_update"
  /\ UNCHANGED <<aux, fn, llcodeword, iters, plain, ok, codeword, m, e, iter, cw, score,
                 ncall, first, hist>>

ldpc_decode_log_var_update ==
  /\ pc = "var_update" /\ fn = "log"
  /\ m' = ldpc_decode_log_m(llcodeword, m, e)
  /\ iter' = iter + 1
  /\ pc' = "loop"
  /\ UNCHANGED <<aux, fn, llcodeword, iters, plain, ok, codeword, e, cw, score,
                 best_score, best_cw, ncall, first, hist>>

ldpc_decode_log_give_up ==
  /\ pc = "give_up" /\ fn = "log"
  /\ plain' = best_cw
  /\ ok' = best_score
  /\ pc' = "done"
  /\ UNCHANGED <<aux, fn, llcodeword, iters, codeword, m, e, iter, cw, score,
                 best_score, best_cw, ncall, first, hist>>

\* ----------------------------------------------------------------- inputs
MaxIters == 3        \* largest iteration budget tried
MaxNoise == 2        \* largest number of disturbed positions of a received word

Words == [Bits -> {0, 1}]
Weight(c) == Cardinality({i \in Bits : c[i] = 1})
Codewords == {c \in Words : ldpc_check(c) = NChecks}

\* c comes before d, reading from bit 0.
WordLt(c, d) == \E i \in Bits : c[i] < d[i] /\ \A k \in 0 .. (i - 1) : c[k] = d[k]

ZeroWord == [i \in Bits |-> 0]
\* The first of the codewords with the fewest ones, the zero word aside.
LightWord ==
  CHOOSE c \in Codewords \ {ZeroWord} :
    \A d \in Codewords \ {ZeroWord, c} :
      Weight(c) < Weight(d) \/ (Weight(c) = Weight(d) /\ WordLt(c, d))

\* The codewords that are sent, the magnitudes they are received with, and
\* the positions and values of the disturbances.
SentWords == {ZeroWord, LightWord}
Mags == {10, 20}
NoisePos == {7, 10}
NoiseVals == {-10, 1}
Noises == UNION {[P -> NoiseVals] : P \in {Q \in SUBSET NoisePos : Cardinality(Q) <= MaxNoise}}

\* Codeword c received with magnitude mag (positive for a 0, negative for a
\* 1), disturbed at the positions of nz.
Received(c, mag, nz) ==
  [i \in Bits |->
     IntToF(IF i \in DOMAIN nz THEN nz[i] ELSE IF c[i] = 0 THEN mag ELSE 0 - mag)]

Inputs == {Received(c, mag, nz) : c \in SentWords, mag \in Mags, nz \in Noises}

\* The buffers of the caller hold a value that no decoder writes.
CallerInts == [i \in Bits |-> 7]

\* ------------------------------------------------------------------- Init
\* Locals that the code writes before it reads them start as zeros.
Locals ==
  /\ codeword = [i \in Bits |-> FZero]
  /\ m = ZeroMatrix
  /\ e = ZeroMatrix
  /\ iter = 0
  /\ score = 0
  /\ best_score = 0
  /\ best_cw = [i \in Bits |-> 0]

\* A call of ldpc_decode or ldpc_decode_log.
Init ==
  /\ pc = "entry"
  /\ fn \in {"prob", "log"}
  /\ llcodeword \in Inputs
  /\ iters \in 0 .. MaxIters
  /\ plain = CallerInts
  /\ ok = -7
  /\ cw = [i \in Bits |-> 0]
  /\ Locals
  /\ ncall = 1
  /\ first = <<>>
  /\ hist = <<>>
  /\ AuxIdle

Next ==
  \/ ldpc_decode_init
  \/ ldpc_decode_loop
  \/ ldpc_decode_check_update
  \/ ldpc_decode_hard_decision
  \/ ldpc_decode_success
  \/ ldpc_decode_best
  \/ ldpc_decode_var_update
  \/ ldpc_decode_give_up
  \/ ldpc_decode_log_init
  \/ ldpc_decode_log_loop
  \/ ldpc_decode_log_check_update
  \/ ldpc_decode_log_hard_decision
  \/ ldpc_decode_log_success
  \/ ldpc_decode_log_best
  \/ ldpc_decode_log_var_update
  \/ ldpc_decode_log_give_up

Spec == Init /\ [][Next]_vars

\* The decoders are sequential code: a call that has not returned goes on to
\* another statement.  Every action of Next moves pc, and one of them is
\* enabled wherever pc is not "done".
ldpc_decode_goes_on ==
  /\ pc # "done"
  /\ pc' \in {"loop", "check_update", "hard_decision", "early_exit", "var_update",
              "give_up", "done"} \ {pc}

SpecLive == Init /\ [][Next]_vars /\ WF_pc(ldpc_decode_goes_on)

\* ------------------------------------------------- ldpc_check on its own
\* A call of ldpc_check on an arbitrary word.
InitCheck ==
  /\ pc = "entry"
  /\ fn = "check"
  /\ cw \in Words
  /\ llcodeword = [i \in Bits |-> FZero]
  /\ iters = 0
  /\ plain = CallerInts
  /\ ok = -7
  /\ Locals
  /\ ncall = 1
  /\ first = <<>>
  /\ hist = <<>>
  /\ AuxIdle

\* score = ldpc_check(cw)
ldpc_check_call ==
  /\ pc = "entry" /\ fn = "check"
  /\ score' = ldpc_check(cw)
  /\ pc' = "done"
  /\ UNCHANGED <<aux, fn, llcodeword, iters, plain, ok, codeword, m, e, iter, cw,
                 best_score, best_cw, ncall, first, hist>>

NextCheck == ldpc_check_call

SpecCheck == InitCheck /\ [][NextCheck]_vars

\* ------------------------------------------- the same call a second time
MaxItersTwice == 1   \* largest iteration budget of a repeated call

InitTwice ==
  /\ pc = "entry"
  /\ fn \in {"prob", "log"}
  /\ llcodeword \in Inputs
  /\ iters \in 0 .. MaxItersTwice
  /\ plain = CallerInts
  /\ ok = -7
  /\ cw = [i \in Bits |-> 0]
  /\ Locals
  /\ ncall = 1
  /\ first = <<>>
  /\ hist = <<>>
  /\ AuxIdle

\* The caller keeps the outputs and calls the same decoder again with the
\* same llcodeword and iters; the locals of the new call are a new frame.
call_again ==
  /\ pc = "done" /\ ncall = 1
  /\ first' = <<plain, ok>>
  /\ ncall' = 2
  /\ pc' = "entry"
  /\ UNCHANGED <<aux, fn, llcodeword, iters, plain, ok, codeword, m, e, iter, cw, score,
                 best_score, best_cw, hist>>

NextTwice ==
  \/ Next
  \/ call_again

SpecTwice == InitTwice /\ [][NextTwice]_vars

\* ------------------------------------------------------------------ ft8_crc
\* The variables of the decoders, which the other functions leave alone.
dec == <<pc, fn, llcodeword, iters, plain, ok, codeword, m, e, iter, cw, score,
         best_score, best_cw, ncall, first, hist>>

\* No decoder call is in progress.
NoCall ==
  /\ pc = "idle"
  /\ fn = "none"
  /\ llcodeword = [i \in Bits |-> FZero]
  /\ iters = 0
  /\ plain = CallerInts
  /\ ok = -7
  /\ cw = [i \in Bits |-> 0]
  /\ Locals
  /\ ncall = 1
  /\ first = <<>>
  /\ hist = <<>>

CrcBits == 14        \* int out[14]

\* int div[]: the generator, leading 1 first; div[j] of the code is div[j + 1].
div == <<1, 1, 0, 0, 1, 1, 1, 0, 1, 0, 1, 0, 1, 1, 1>>

\* An int array of n entries, indexed from 0.
Arr(n, v) == [k \in 0 .. (n - 1) |-> v]

\* ft8_crc_fill, but with ones appended.
ft8_crc_fill_ones(msg1, msglen) ==
  [k \in 0 .. (msglen + CrcBits - 1) |-> IF k < msglen THEN msg1[k] ELSE 1]

\* msg[i] = msg1[i] for i < msglen, 0 for the 14 entries after them.
ft8_crc_fill(msg1, msglen) ==
  [k \in 0 .. (msglen + CrcBits - 1) |-> IF k < msglen THEN msg1[k] ELSE 0]

\* ft8_crc_xor, but with the loop over j stopping one entry early.
ft8_crc_xor_short(msg, i) ==
  IF msg[i] # 0
  THEN [k \in DOMAIN msg |->
          IF k >= i /\ k < i + Len(div) - 1 THEN (msg[k] + div[k - i + 1]) % 2 ELSE msg[k]]
  ELSE msg

\* The body of the loop over i: if msg[i], add div into msg[i .. i + 14].
ft8_crc_xor(msg, i) ==
  IF msg[i] # 0
  THEN [k \in DOMAIN msg |->
          IF k >= i /\ k < i + Len(div) THEN (msg[k] + div[k - i + 1]) % 2 ELSE msg[k]]
  ELSE msg

\* ft8_crc_more, but with i < msglen - 1.
ft8_crc_more_short(c) == c.i < c.msglen - 1

\* ft8_crc_more, but with i <= msglen.
ft8_crc_more_over(c) == c.i <= c.msglen

\* for (int i = 0; i < msglen; i++)
ft8_crc_more(c) == c.i < c.msglen

\* A block that is in use by no call.
\* FreeBlocks, but handing out the same block whether or not it is in use.
FreeBlocks_static(h) == {1}

\* The blocks malloc can return: those not in use.
FreeBlocks(h) == {b \in Blocks : h[b] = <<>>}

\* Entry: malloc, and the copy of msg1 with 14 zeros appended.
ft8_crc_pad ==
  /\ crc.pc = "entry"
  /\ \E b \in FreeBlocks(heap) :
       /\ heap' = [heap EXCEPT ![b] = ft8_crc_fill(crc.msg1, crc.msglen)]
       /\ crc' = [crc EXCEPT !.msg = b, !.i = 0, !.pc = "divide"]
  /\ UNCHANGED <<dec, gj, th, procs>>

\* One turn of the division loop, or its end.
ft8_crc_divide ==
  /\ crc.pc = "divide"
  /\ IF ft8_crc_more(crc)
     THEN /\ heap' = [heap EXCEPT ![crc.msg] = ft8_crc_xor(heap[crc.msg], crc.i)]
          /\ crc' = [crc EXCEPT !.i = crc.i + 1]
     ELSE /\ heap' = heap
          /\ crc' = [crc EXCEPT !.pc = "copy"]
  /\ UNCHANGED <<dec, gj, th, procs>>

\* out[i] = msg[msglen + i]; free(msg).
ft8_crc_out ==
  /\ crc.pc = "copy"
  /\ crc' = [crc EXCEPT !.out = [k \in 0 .. (CrcBits - 1) |-> heap[crc.msg][crc.msglen + k]],
                        !.pc = "done"]
  /\ heap' = [heap EXCEPT ![crc.msg] = <<>>]
  /\ UNCHANGED <<dec, gj, th, procs>>

\* The caller appends out to the message and calls ft8_crc on the result.
ft8_crc_recheck ==
  /\ crc.pc = "done" /\ crc.round = 1
  /\ crc' = [crc EXCEPT
               !.msg1 = [k \in 0 .. (crc.msglen + CrcBits - 1) |->
                           IF k < crc.msglen THEN crc.msg1[k] ELSE crc.out[k - crc.msglen]],
               !.msglen = crc.msglen + CrcBits,
               !.sent = crc.msg1,
               !.crc1 = crc.out,
               !.out = Arr(CrcBits, 7),
               !.round = 2,
               !.pc = "entry"]
  /\ UNCHANGED <<dec, heap, gj, th, procs>>

MaxMsgLen == 5       \* longest message of which every value is tried

\* The 77-bit payload: the 91 systematic bits without the 14 CRC bits.
PayloadBits == 91 - CrcBits
UnitMsg == [k \in 0 .. (PayloadBits - 1) |-> IF k = 0 THEN 1 ELSE 0]

Messages ==
  UNION {[0 .. (n - 1) -> {0, 1}] : n \in 0 .. MaxMsgLen}
    \cup {UnitMsg, Arr(PayloadBits, 0)}

MsgLen(msg) == Cardinality(DOMAIN msg)

InitCrc ==
  /\ \E msg1 \in Messages :
       crc = [pc |-> "entry", msg1 |-> msg1, msglen |-> MsgLen(msg1), msg |-> 0, i |-> 0,
              out |-> Arr(CrcBits, 7), round |-> 1, sent |-> msg1, crc1 |-> Arr(CrcBits, 7)]
  /\ heap = NoHeap
  /\ gj = Idle
  /\ th = Idle
  /\ procs = Idle
  /\ NoCall

NextCrc ==
  \/ ft8_crc_pad
  \/ ft8_crc_divide
  \/ ft8_crc_out
  \/ ft8_crc_recheck

SpecCrc == InitCrc /\ [][NextCrc]_vars

\* ----------------------------------------------------------- gauss_jordan
(***************************************************************************)
(* gauss_jordan(rows, cols, m, which, ok) is written for rows = 91 and     *)
(* cols = 174 (the two asserts).  The model takes the two sizes as the     *)
(* bounds GJRows and GJCols; m has GJCols rows of 2 * GJRows entries.  The *)
(* code indexes which with row1 < cols, so which has GJCols entries here.  *)
(***************************************************************************)
GJRows == 2
GJCols == 4

GJRowIdx == 0 .. (GJCols - 1)
GJPivots == 0 .. (GJRows - 1)

\* f with its entries a and b exchanged (rows of m, entries of which).
gj_swap(f, a, b) ==
  [k \in DOMAIN f |-> IF k = a THEN f[b] ELSE IF k = b THEN f[a] ELSE f[k]]

\* gj_first, but looking for a pivot only in the rows below rows.
gj_first_top(mm, rows, cols, row) ==
  LET found == {row1 \in (row + 1) .. (rows - 1) : mm[row1][row] = 1}
  IN IF found = {} THEN cols
     ELSE CHOOSE row1 \in found : \A r \in found : row1 <= r

\* gj_first, but taking the last row with a 1 in column row.
gj_first_last(mm, rows, cols, row) ==
  LET found == {row1 \in (row + 1) .. (cols - 1) : mm[row1][row] = 1}
  IN IF found = {} THEN cols
     ELSE CHOOSE row1 \in found : \A r \in found : row1 >= r

\* gj_first, but starting the search at row + 2.
gj_first_next(mm, rows, cols, row) ==
  LET found == {row1 \in (row + 2) .. (cols - 1) : mm[row1][row] = 1}
  IN IF found = {} THEN cols
     ELSE CHOOSE row1 \in found : \A r \in found : row1 <= r

\* The inner loop over row1: the first row after row with a 1 in column
\* row; cols if the loop ends without a break.
gj_first(mm, rows, cols, row) ==
  LET found == {row1 \in (row + 1) .. (cols - 1) : mm[row1][row] = 1}
  IN IF found = {} THEN cols
     ELSE CHOOSE row1 \in found : \A r \in found : row1 <= r

\* gj_singular, but never giving up.
gj_singular_never(mm, row) == FALSE

\* The test after the search: could not invert.
gj_singular(mm, row) == mm[row][row] # 1

\* gj_toggle, but toggling the last column of the row.
gj_toggle_last(mm, rows, row) ==
  [mm EXCEPT ![row][2 * rows - 1] = (mm[row][2 * rows - 1] + 1) % 2]

\* gj_eliminate, but clearing column row only in the rows down to rows - 1.
gj_eliminate_top(mm, row) ==
  [row1 \in DOMAIN mm |->
     IF row1 # row /\ row1 < Cardinality(DOMAIN mm[row1]) \div 2 /\ mm[row1][row] # 0
     THEN [col \in DOMAIN mm[row1] |-> (mm[row1][col] + mm[row][col]) % 2]
     ELSE mm[row1]]

\* The toggle that creates the identity lazily.
gj_toggle(mm, rows, row) ==
  [mm EXCEPT ![row][rows + row] = (mm[row][rows + row] + 1) % 2]

\* gj_eliminate, but clearing column row only in the rows after row.
gj_eliminate_below(mm, row) ==
  [row1 \in DOMAIN mm |->
     IF row1 > row /\ mm[row1][row] # 0
     THEN [col \in DOMAIN mm[row1] |-> (mm[row1][col] + mm[row][col]) % 2]
     ELSE mm[row1]]

\* The loop that adds row row to every other row with a nonzero entry in
\* column row.  Row row itself does not change in the loop, so the rows can
\* be taken in any order.
gj_eliminate(mm, row) ==
  [row1 \in DOMAIN mm |->
     IF row1 # row /\ mm[row1][row] # 0
     THEN [col \in DOMAIN mm[row1] |-> (mm[row1][col] + mm[row][col]) % 2]
     ELSE mm[row1]]

\* *ok = 0; the asserts; row = 0.
gauss_jordan_enter ==
  /\ gj.pc = "entry"
  /\ gj.rows = GJRows /\ gj.cols = GJCols
  /\ gj' = [gj EXCEPT !.pc = "pivot", !.ok = 0, !.row = 0]
  /\ UNCHANGED <<dec, crc, heap, th, procs>>

\* if (m[row][row] != 1): look for a row to swap in, swap m and which.
gauss_jordan_pivot ==
  /\ gj.pc = "pivot"
  /\ gj.row < gj.rows
  /\ LET row1 == gj_first(gj.m, gj.rows, gj.cols, gj.row)
     IN IF gj.m[gj.row][gj.row] # 1 /\ row1 < gj.cols
        THEN gj' = [gj EXCEPT !.pc = "test",
                              !.m = gj_swap(gj.m, gj.row, row1),
                              !.which = gj_swap(gj.which, gj.row, row1)]
        ELSE gj' = [gj EXCEPT !.pc = "test"]
  /\ UNCHANGED <<dec, crc, heap, th, procs>>

\* if (m[row][row] != 1) { *ok = 0; return; }
gauss_jordan_fail ==
  /\ gj.pc = "test"
  /\ gj_singular(gj.m, gj.row)
  /\ gj' = [gj EXCEPT !.pc = "done", !.ok = 0]
  /\ UNCHANGED <<dec, crc, heap, th, procs>>

\* The toggle, the elimination, row++.
gauss_jordan_eliminate ==
  /\ gj.pc = "test"
  /\ ~gj_singular(gj.m, gj.row)
  /\ gj' = [gj EXCEPT !.pc = "pivot",
                      !.m = gj_eliminate(gj_toggle(gj.m, gj.rows, gj.row), gj.row),
                      !.row = gj.row + 1]
  /\ UNCHANGED <<dec, crc, heap, th, procs>>

\* The loop over row has ended: *ok = 1.
gauss_jordan_finish ==
  /\ gj.pc = "pivot"
  /\ gj.row >= gj.rows
  /\ gj' = [gj EXCEPT !.pc = "done", !.ok = 1]
  /\ UNCHANGED <<dec, crc, heap, th, procs>>

\* The matrices the caller passes: any left half; a right half of zeros, or
\* one left over from an earlier use.
GJRight == {[col \in GJPivots |-> 0], [col \in GJPivots |-> IF col = 0 THEN 1 ELSE 0]}
GJMatrix(left, right) ==
  [row \in GJRowIdx |->
     [col \in 0 .. (2 * GJRows - 1) |->
        IF col < GJRows THEN left[row][col]
        ELSE IF row = 0 THEN right[col - GJRows] ELSE 0]]

InitGJ ==
  /\ \E left \in [GJRowIdx -> [GJPivots -> {0, 1}]], right \in GJRight :
       gj = [pc |-> "entry", rows |-> GJRows, cols |-> GJCols,
             m |-> GJMatrix(left, right), which |-> [k \in GJRowIdx |-> k],
             ok |-> -7, row |-> 0,
             m0 |-> GJMatrix(left, right), which0 |-> [k \in GJRowIdx |-> k]]
  /\ crc = Idle /\ heap = NoHeap /\ th = Idle /\ procs = Idle
  /\ NoCall

NextGJ ==
  \/ gauss_jordan_enter
  \/ gauss_jordan_pivot
  \/ gauss_jordan_fail
  \/ gauss_jordan_eliminate
  \/ gauss_jordan_finish

SpecGJ == InitGJ /\ [][NextGJ]_vars

\* ------------------------------------------------------ fast_tanh, called
\* The arguments tried are the multiples of 1/8 up to TanhMax / 8.
TanhMax == 80

\* One call of fast_tanh.
fast_tanh_call ==
  /\ th.pc = "entry"
  /\ th' = [th EXCEPT !.pc = "done", !.y = fast_tanh(th.x)]
  /\ UNCHANGED <<dec, crc, heap, gj, procs>>

InitTanh ==
  /\ \E k \in (0 - TanhMax) .. TanhMax :
       th = [pc |-> "entry", k |-> k, x |-> FScale(IntToF(k), -3), y |-> FZero]
  /\ crc = Idle /\ heap = NoHeap /\ gj = Idle /\ procs = Idle
  /\ NoCall

SpecTanh == InitTanh /\ [][fast_tanh_call]_vars

\* ------------------------------------------------------- concurrent calls
(***************************************************************************)
(* Two calls run at the same time, each on arguments and locals of its     *)
(* own: procs[p] holds the arguments, the locals and the position of call  *)
(* p.  The calls share the tables Nm and Mn, which no statement writes,    *)
(* and the allocator behind malloc and free, which hands out a block that  *)
(* is not in use.  A step of a call is a step of the actions above, taken  *)
(* on the record of the call.                                              *)
(***************************************************************************)
Procs == {1, 2}
ParIters == 1        \* iteration budget of the concurrent decoder calls

\* A step of ldpc_decode or ldpc_decode_log; g is what best_cw holds on entry.
par_decode(q, g) ==
  CASE q.pc = "entry" ->
         [q EXCEPT !.pc = "loop", !.best_score = -1, !.best_cw = g,
                   !.codeword = IF q.fn = "prob"
                                THEN [i \in Bits |-> ProbOfLLR(q.llcodeword[i])]
                                ELSE q.codeword,
                   !.m = [j \in Checks |->
                            [i \in Bits |-> IF q.fn = "prob" THEN ProbOfLLR(q.llcodeword[i])
                                            ELSE q.llcodeword[i]]],
                   !.e = ZeroMatrix, !.iter = 0]
    [] q.pc = "loop" ->
         [q EXCEPT !.pc = IF q.iter < q.iters THEN "check_update" ELSE "give_up"]
    [] q.pc = "check_update" ->
         [q EXCEPT !.pc = "hard_decision",
                   !.e = IF q.fn = "prob" THEN ldpc_decode_e(q.m, q.e)
                         ELSE ldpc_decode_log_e(q.m, q.e)]
    [] q.pc = "hard_decision" ->
         [q EXCEPT !.pc = "score",
                   !.cw = IF q.fn = "prob" THEN ldpc_decode_cw(q.codeword, q.e)
                          ELSE ldpc_decode_log_cw(q.llcodeword, q.e)]
    [] q.pc = "score" ->
         [q EXCEPT !.pc = "early_exit", !.score = ldpc_check(q.cw)]
    [] q.pc = "early_exit" ->
         IF q.score = NChecks
         THEN [q EXCEPT !.pc = "done", !.plain = q.cw, !.ok = NChecks]
         ELSE [q EXCEPT !.pc = "var_update",
                        !.best_cw = IF q.score > q.best_score THEN q.cw ELSE q.best_cw,
                        !.best_score = IF q.score > q.best_score THEN q.score
                                       ELSE q.best_score]
    [] q.pc = "var_update" ->
         [q EXCEPT !.pc = "loop", !.iter = q.iter + 1,
                   !.m = IF q.fn = "prob" THEN ldpc_decode_m(q.codeword, q.m, q.e)
                         ELSE ldpc_decode_log_m(q.llcodeword, q.m, q.e)]
    [] q.pc = "give_up" ->
         [q EXCEPT !.pc = "done", !.plain = q.best_cw, !.ok = q.best_score]

\* A step of ft8_crc on the heap h; b is the block malloc returns.
par_crc(q, h, b) ==
  CASE q.pc = "entry" -> [q EXCEPT !.pc = "divide", !.msg = b, !.i = 0]
    [] q.pc = "divide" ->
         IF ft8_crc_more(q) THEN [q EXCEPT !.i = q.i + 1] ELSE [q EXCEPT !.pc = "copy"]
    [] q.pc = "copy" ->
         [q EXCEPT !.pc = "done",
                   !.out = [k \in 0 .. (CrcBits - 1) |-> h[q.msg][q.msglen + k]]]

\* What the step of call q leaves on the heap: only ft8_crc writes to it.
par_heap(q, h, b) ==
  IF q.fn # "crc" THEN h
  ELSE CASE q.pc = "entry" -> [h EXCEPT ![b] = ft8_crc_fill(q.msg1, q.msglen)]
         [] q.pc = "divide" ->
              IF ft8_crc_more(q) THEN [h EXCEPT ![q.msg] = ft8_crc_xor(h[q.msg], q.i)] ELSE h
         [] q.pc = "copy" -> [h EXCEPT ![q.msg] = <<>>]

\* A step of gauss_jordan.
par_gj(q) ==
  CASE q.pc = "entry" -> [q EXCEPT !.pc = "pivot", !.ok = 0, !.row = 0]
    [] q.pc = "pivot" /\ q.row >= q.rows -> [q EXCEPT !.pc = "done", !.ok = 1]
    [] q.pc = "pivot" /\ q.row < q.rows ->
         IF q.m[q.row][q.row] # 1 /\ gj_first(q.m, q.rows, q.cols, q.row) < q.cols
         THEN [q EXCEPT !.pc = "test",
                        !.m = gj_swap(q.m, q.row, gj_first(q.m, q.rows, q.cols, q.row)),
                        !.which = gj_swap(q.which, q.row,
                                          gj_first(q.m, q.rows, q.cols, q.row))]
         ELSE [q EXCEPT !.pc = "test"]
    [] q.pc = "test" ->
         IF gj_singular(q.m, q.row)
         THEN [q EXCEPT !.pc = "done", !.ok = 0]
         ELSE [q EXCEPT !.pc = "pivot", !.row = q.row + 1,
                        !.m = gj_eliminate(gj_toggle(q.m, q.rows, q.row), q.row)]

\* A step of the call q, whatever function it is a call of.
par_step(q, h, b, g) ==
  CASE q.fn = "check" -> [q EXCEPT !.pc = "done", !.ret = ldpc_check(q.codeword)]
    [] q.fn \in {"prob", "log"} -> par_decode(q, g)
    [] q.fn = "crc" -> par_crc(q, h, b)
    [] q.fn = "gj" -> par_gj(q)

\* Call p takes its next step.
par_run(p) ==
  /\ procs[p].pc # "done"
  /\ \E b \in (IF procs[p].fn = "crc" /\ procs[p].pc = "entry" THEN FreeBlocks(heap) ELSE {0}),
        g \in (IF procs[p].fn \in {"prob", "log"} /\ procs[p].pc = "entry"
               THEN StackInts ELSE {ZeroWord}) :
       /\ procs' = [procs EXCEPT ![p] = par_step(procs[p], heap, b, g)]
       /\ heap' = par_heap(procs[p], heap, b)
  /\ UNCHANGED <<dec, crc, gj, th>>

\* The calls that are run together: ldpc_check on a word that is not a
\* codeword; ldpc_decode on a clean word and ldpc_decode_log on a disturbed
\* one; ft8_crc on two messages; gauss_jordan on a matrix that needs no swap
\* and on one that needs one at every pivot.
ParCalls ==
  {[fn |-> "check", pc |-> "entry", ret |-> -7,
    codeword |-> [i \in Bits |-> IF i = 0 THEN 1 - LightWord[i] ELSE LightWord[i]]]}
  \cup
  {[fn |-> c[1], pc |-> "entry", llcodeword |-> c[2], iters |-> ParIters,
    plain |-> CallerInts, ok |-> -7, codeword |-> [i \in Bits |-> FZero],
    m |-> ZeroMatrix, e |-> ZeroMatrix, iter |-> 0, cw |-> ZeroWord, score |-> 0,
    best_score |-> 0, best_cw |-> ZeroWord] :
     c \in {<<"prob", Received(LightWord, 10, [i \in {} |-> 0])>>,
            <<"log", Received(ZeroWord, 10, [i \in NoisePos |-> -10])>>}}
  \cup
  {[fn |-> "crc", pc |-> "entry", msg1 |-> msg1, msglen |-> MsgLen(msg1), msg |-> 0,
    i |-> 0, out |-> Arr(CrcBits, 7)] :
     msg1 \in {x \in [0 .. 1 -> {0, 1}] : x[0] = 1}}
  \cup
  {[fn |-> "gj", pc |-> "entry", rows |-> GJRows, cols |-> GJCols, m |-> mm, m0 |-> mm,
    which |-> [k \in GJRowIdx |-> k], ok |-> -7, row |-> 0] :
     mm \in {GJMatrix([row \in GJRowIdx |-> [col \in GJPivots |->
                          IF row = col + d THEN 1 ELSE 0]],
                      [col \in GJPivots |-> 0]) : d \in {0, 1}}}

InitPar ==
  /\ procs \in [Procs -> ParCalls]
  /\ heap = NoHeap
  /\ crc = Idle /\ gj = Idle /\ th = Idle
  /\ NoCall

SpecPar == InitPar /\ [][\E p \in Procs : par_run(p)]_vars

\* ------------------------------------------------------------- properties
\* The sign decode of an LLR vector: bit 1 iff the LLR is <= 0.
SignDecode(ll) == [i \in Bits |-> IF FLe(ll[i], FZero) THEN 1 ELSE 0]

\* Every LLR has the same magnitude, 10 or more.
Saturated(ll) ==
  \E mag \in {g \in Mags : g >= 10} : \A i \in Bits : ll[i] \in {IntToF(mag), IntToF(0 - mag)}

\* Check j holds on word c: an even number of its non-absent slots hold a 1.
EvenParity(c, j) ==
  Cardinality({k \in 0 .. (NmCols - 1) : Nm[j][k] > 0 /\ c[Nm[j][k] - 1] = 1}) % 2 = 0

Decoding == fn \in {"prob", "log"}
Returned == Decoding /\ pc = "done"

\* The iteration whose score is the largest, the earliest of these.
BestIter(h) ==
  CHOOSE k \in 1 .. Len(h) :
    \A n \in 1 .. Len(h) : h[n].score < h[k].score \/ (h[n].score = h[k].score /\ n >= k)

\* No iteration of this call scored NChecks.
NoneValid == \A n \in 1 .. Len(hist) : hist[n].score # NChecks

\* C1: for every word c, ldpc_check(c) is the number of checks j whose
\* non-absent slots hold an even number of ones; the result lies in
\* 0 .. NChecks and the word is not modified.
C1_CheckCounts ==
  /\ [](fn = "check" /\ pc = "done" =>
          /\ score = Cardinality({j \in Checks : EvenParity(cw, j)})
          /\ score \in 0 .. NChecks)
  /\ [][cw' = cw]_vars

\* A word with bit 0 set that passes some checks and fails others, one of the
\* failed checks having an absent slot.
C1_Witness ==
  /\ fn = "check" /\ pc = "done"
  /\ cw[0] = 1
  /\ score \in 1 .. (NChecks - 1)
  /\ \E j \in Checks : Nm[j][NmCols - 1] = 0 /\ ~EvenParity(cw, j)

\* C2: whenever a decoder returns with ok = NChecks, the returned word passes
\* every check.
C2_ValidWhenOk == Returned /\ ok = NChecks => ldpc_check(plain) = NChecks

\* ldpc_decode_log succeeded in its third iteration with a word that is not
\* the sign decode of its input.
C2_Witness ==
  /\ Returned /\ ok = NChecks
  /\ fn = "log"
  /\ Len(hist) = 3
  /\ plain # SignDecode(llcodeword)

\* C3: a codeword sent with one large magnitude and no disturbance is
\* returned, with ok = NChecks, by the first iteration of either decoder.
C3_NoiselessDecodes ==
  (Returned /\ iters >= 1 /\ Saturated(llcodeword)
     /\ ldpc_check(SignDecode(llcodeword)) = NChecks)
  => (plain = SignDecode(llcodeword) /\ ok = NChecks /\ Len(hist) = 1)

\* C4: when the budget (iters >= 1) runs out with no iteration scoring
\* NChecks, ok is the largest score of all the iterations, plain is the hard
\* decision of the earliest iteration with that score, and plain has score ok.
C4_BestOnExhaust ==
  (Returned /\ iters >= 1 /\ NoneValid)
  => /\ Len(hist) = iters
     /\ ok = hist[BestIter(hist)].score
     /\ plain = hist[BestIter(hist)].cw
     /\ ldpc_check(plain) = ok

\* The budget ran out, and a later iteration reached the best score again
\* with another word.
C4_Witness ==
  /\ Returned /\ iters >= 2 /\ NoneValid
  /\ fn = "log"
  /\ \E n \in 1 .. Len(hist) :
       n > BestIter(hist) /\ hist[n].score = ok /\ hist[n].cw # plain

\* C5: an iteration whose hard decision scores NChecks is the last one: the
\* call returns that word with ok = NChecks, and neither the best-so-far
\* update nor the variable update nor another iteration follows it.
C5_SuccessEnds ==
  Decoding =>
    \A k \in 1 .. Len(hist) :
      hist[k].score = NChecks =>
        /\ k = Len(hist)
        /\ pc \in {"early_exit", "done"}
        /\ iter = k - 1
        /\ best_score < NChecks
        /\ (pc = "done" => plain = hist[k].cw /\ ok = NChecks)

\* ldpc_decode succeeded in its third iteration.
C5_Witness ==
  /\ Returned /\ fn = "prob"
  /\ Len(hist) = 3
  /\ hist[3].score = NChecks
  /\ plain = hist[3].cw

\* C6: within a call the best score never decreases, and once an iteration
\* has completed the best codeword has the best score as its parity score.
C6_BestMonotone ==
  /\ [](Decoding /\ pc # "entry" /\ iter >= 1 => ldpc_check(best_cw) = best_score)
  /\ [][Decoding /\ pc # "entry" => best_score' >= best_score]_vars

\* An iteration scored below the best so far and left it alone.
C6_Witness ==
  /\ Decoding /\ pc = "var_update"
  /\ iter >= 1
  /\ score < best_score
  /\ best_cw # cw

\* C7: a call with iters > 0 returns ok in 0 .. NChecks and a plain whose
\* every entry is 0 or 1.
C7_OutputRange ==
  Returned /\ iters > 0 => ok \in 0 .. NChecks /\ \A i \in Bits : plain[i] \in {0, 1}

\* A call that gave up after its iterations and returned a word that fails
\* some check.
C7_Witness ==
  /\ Returned /\ iters > 0
  /\ NoneValid
  /\ ok \in 0 .. (NChecks - 1)
  /\ plain \in Words

\* C8: with iters = 0 both decoders return ok = the score of the sign decode
\* of the input, and ldpc_decode_log returns that sign decode as plain.
C8_ZeroBudget ==
  Returned /\ iters = 0
  => /\ ok = ldpc_check(SignDecode(llcodeword))
     /\ (fn = "log" => plain = SignDecode(llcodeword))

\* C9: no step of a decoder writes the input LLRs.
C9_InputKept == [][llcodeword' = llcodeword]_vars

\* Both exits have been taken with a disturbed input: this one gave up.
C9_Witness ==
  /\ Returned /\ iters >= 1
  /\ NoneValid
  /\ \E i \in Bits : llcodeword[i] = IntToF(1)

\* C10: a second call of the same decoder with the same llcodeword and iters
\* returns the same plain and ok as the first, for every iters >= 0.
C10_SameOutputs == Returned /\ ncall = 2 => <<plain, ok>> = first

\* The generator polynomial 0x2757 with its leading 1.
Generator == <<1, 1, 0, 0, 1, 1, 1, 0, 1, 0, 1, 0, 1, 1, 1>>

\* The remainder of the bit sequence s divided by Generator.
RECURSIVE PolyRem(_)
PolyRem(s) ==
  IF Len(s) < Len(Generator) THEN s
  ELSE IF Head(s) = 1
       THEN PolyRem(Tail([k \in 1 .. Len(s) |->
                            IF k <= Len(Generator) THEN (s[k] + Generator[k]) % 2 ELSE s[k]]))
       ELSE PolyRem(Tail(s))

\* The array a of n entries followed by the 14 entries of b, as a sequence.
Joined(a, n, b) == [k \in 1 .. (n + CrcBits) |-> IF k <= n THEN a[k - 1] ELSE b[k - 1 - n]]

ZeroSeq(s) == \A k \in 1 .. Len(s) : s[k] = 0
CrcDone == crc.pc = "done"

\* C11: for every message, the message followed by its CRC leaves remainder
\* zero when divided by the generator, and ft8_crc of the message followed by
\* its CRC yields 14 zero bits.
C11_CrcRoundTrip ==
  /\ (CrcDone /\ crc.round = 1) => ZeroSeq(PolyRem(Joined(crc.msg1, crc.msglen, crc.out)))
  /\ (CrcDone /\ crc.round = 2) => crc.out = Arr(CrcBits, 0)

\* The second call has returned, for a message with a nonzero CRC.
C11_Witness ==
  /\ CrcDone /\ crc.round = 2
  /\ crc.msglen = MaxMsgLen + CrcBits
  /\ crc.crc1 # Arr(CrcBits, 0)
  /\ crc.crc1 # Arr(CrcBits, 7)

\* C12 as stated: the CRC of the 77-bit message 1 0 ... 0 is
\* 0 0 1 0 0 1 1 1 0 1 0 1 1 1.
C12_UnitMsgClaimed ==
  (CrcDone /\ crc.round = 1 /\ crc.msg1 = UnitMsg)
  => crc.out = [k \in 0 .. (CrcBits - 1) |-> <<0, 0, 1, 0, 0, 1, 1, 1, 0, 1, 0, 1, 1, 1>>[k + 1]]

\* C12, amended: the CRC of the 77-bit message 1 0 ... 0 is
\* 0 1 1 0 0 0 1 0 0 0 1 0 1 0; the low 14 bits of the generator,
\* 1 0 0 1 1 1 0 1 0 1 0 1 1 1, are the CRC of the one-bit message 1.
C12_UnitMsg ==
  /\ (CrcDone /\ crc.round = 1 /\ crc.msg1 = UnitMsg)
     => crc.out = [k \in 0 .. (CrcBits - 1) |-> <<0, 1, 1, 0, 0, 0, 1, 0, 0, 0, 1, 0, 1, 0>>[k + 1]]
  /\ (CrcDone /\ crc.round = 1 /\ crc.msg1 = Arr(1, 1))
     => crc.out = [k \in 0 .. (CrcBits - 1) |-> Generator[k + 2]]

\* ft8_crc has returned for the 77-bit message 1 0 ... 0.
C12_Witness ==
  /\ CrcDone /\ crc.round = 1
  /\ crc.msg1 = UnitMsg
  /\ crc.msglen = PayloadBits
  /\ crc.i = PayloadBits

\* C13: the CRC of an all-zero message of any length, the empty one
\* included, is 14 zero bits.
C13_ZeroMsg ==
  (CrcDone /\ \A k \in DOMAIN crc.msg1 : crc.msg1[k] = 0) => crc.out = Arr(CrcBits, 0)

\* ft8_crc has returned for the 77-bit all-zero message.
C13_Witness ==
  /\ CrcDone /\ crc.round = 1
  /\ crc.msg1 = Arr(PayloadBits, 0)
  /\ crc.out = Arr(CrcBits, 0)

\* gauss_jordan has returned.
GJDone == gj.pc = "done"

\* The left half of the matrix the call started from.
GJOrig(row, col) == gj.m0[row][col]

RightZero == \A row \in GJRowIdx, col \in GJRows .. (2 * GJRows - 1) : gj.m0[row][col] = 0

\* The sum over k of a[k] * b[k] modulo 2, for k in 0 .. n - 1.
RECURSIVE Dot(_, _, _)
Dot(a, b, n) == IF n = 0 THEN 0 ELSE (a[n - 1] * b[n - 1] + Dot(a, b, n - 1)) % 2

\* Entry (r, c) of R * P: R is the upper right quarter of m, row k of P is
\* the original left half of the row which[k].
GJProduct(r, c) ==
  Dot([k \in GJPivots |-> gj.m[r][GJRows + k]],
      [k \in GJPivots |-> GJOrig(gj.which[k], c)], GJRows)

\* C14: if gauss_jordan returns ok = 1 and the right half was zero on entry,
\* the upper right quarter of m times the matrix of the original left
\* halves of the rows recorded by which is the identity over GF(2).
C14_Inverse ==
  (GJDone /\ gj.ok = 1 /\ RightZero)
  => \A r \in GJPivots, c \in GJPivots : GJProduct(r, c) = (IF r = c THEN 1 ELSE 0)

\* A call that returned ok = 1 after borrowing a row from below the top
\* block, with an inverse that is not the identity.
C14_Witness ==
  /\ GJDone /\ gj.ok = 1 /\ RightZero
  /\ \E k \in GJPivots : gj.which[k] >= GJRows
  /\ \E r \in GJPivots : gj.m[r][GJRows + r] = 0

\* The rows 0 .. n - 1 of the original left half have a trivial kernel.
IndependentColumns(n) ==
  \A x \in [GJPivots -> {0, 1}] :
    (\E c \in GJPivots : x[c] = 1)
    => \E row \in 0 .. (n - 1) : Dot([c \in GJPivots |-> GJOrig(row, c)], x, GJRows) = 1

TopNonSingular == IndependentColumns(GJRows)
FullColumnRank == IndependentColumns(GJCols)

\* C15 as stated: ok = 1 if the top square block is non-singular, and
\* ok = 0 whenever it is singular.
C15_OkIffTopNonSingular ==
  GJDone => (gj.ok = 1 <=> TopNonSingular)

\* C15, amended: ok = 1 if the top square block is non-singular; ok = 0
\* exactly when the left half of all the rows of m does not have full
\* column rank, so a singular top block still gives ok = 1 when lower rows
\* supply the missing pivots.
C15_OkIffFullRank ==
  GJDone => /\ gj.ok \in {0, 1}
            /\ TopNonSingular => gj.ok = 1
            /\ gj.ok = 1 <=> FullColumnRank

\* A call that returned ok = 1 on a matrix with a singular top block.
C15_Witness ==
  GJDone /\ gj.ok = 1 /\ ~TopNonSingular /\ gj.row = GJRows

\* C16: with every left column zero in every row, gauss_jordan returns
\* ok = 0 at pivot row 0 and leaves m and which as they were.
C16_ZeroLeft ==
  (GJDone /\ \A row \in GJRowIdx, col \in GJPivots : GJOrig(row, col) = 0)
  => /\ gj.ok = 0
     /\ gj.row = 0
     /\ gj.m = gj.m0
     /\ gj.which = gj.which0

\* A call on a matrix with a zero left half and a nonzero right half has
\* returned.
C16_Witness ==
  /\ GJDone
  /\ \A row \in GJRowIdx, col \in GJPivots : GJOrig(row, col) = 0
  /\ ~RightZero
  /\ gj.ok = 0

\* Numerator and denominator of the rational function of fast_tanh at the
\* integer x.
TanhNum(x) == x * (135135 + x * x * (17325 + x * x * (378 + x * x)))
TanhDen(x) == 135135 + x * x * (62370 + x * x * (3150 + 28 * x * x))
Abs(n) == IF n < 0 THEN 0 - n ELSE n

\* |num / den| <= 999 / 1000, written so that no product leaves 32 bits.
TanhRationalInRange(x) == 1000 * (TanhDen(x) - Abs(TanhNum(x))) >= TanhDen(x)

\* C18: fast_tanh(x) lies in [-0.999, 0.999] for every x, and at the
\* integers x of [-7.6, 7.6] the rational function has absolute value at
\* most 0.999.
C18_TanhRange ==
  th.pc = "done"
  => /\ FLe(th.y, F0_999)
     /\ FLe(FNeg(F0_999), th.y)
     /\ (th.k % 8 = 0 /\ Abs(th.k) <= 56) => TanhRationalInRange(th.k \div 8)

\* What each phase computes from the values it reads, for the running decoder.
CheckUpdateOf(mm, ee) == IF fn = "prob" THEN ldpc_decode_e(mm, ee) ELSE ldpc_decode_log_e(mm, ee)
HardDecisionOf(ee) ==
  IF fn = "prob" THEN ldpc_decode_cw(codeword, ee) ELSE ldpc_decode_log_cw(llcodeword, ee)
VarUpdateOf(mm, ee) ==
  IF fn = "prob" THEN ldpc_decode_m(codeword, mm, ee) ELSE ldpc_decode_log_m(llcodeword, mm, ee)

\* Where the values of an iteration come from: after the check update e is
\* the check update of the m of this iteration; cw and score are the hard
\* decision on that e; from the second iteration on, m is the variable
\* update on the e of the iteration before, the one cw was decided on.
PhaseData ==
  /\ pc \in {"hard_decision", "early_exit", "var_update"} => e = CheckUpdateOf(m, e)
  /\ pc \in {"early_exit", "var_update"}
     => /\ cw = HardDecisionOf(e)
        /\ score = ldpc_check(cw)
        /\ Len(hist) = iter + 1
  /\ pc \in {"loop", "check_update", "hard_decision"} => Len(hist) = iter
  /\ (pc \in {"loop", "check_update"} /\ iter >= 1)
     => /\ m = VarUpdateOf(m, e)
        /\ cw = HardDecisionOf(e)

\* The order of the phases, and what each of them leaves alone.
PhaseStep ==
  /\ pc = "loop" => pc' \in {"check_update", "give_up"} /\ m' = m /\ e' = e
  /\ pc = "check_update" => pc' = "hard_decision" /\ m' = m /\ cw' = cw
  /\ pc = "hard_decision" => pc' = "early_exit" /\ m' = m /\ e' = e /\ best_cw' = best_cw
  /\ pc = "early_exit"
     => /\ pc' = (IF score = NChecks THEN "done" ELSE "var_update")
        /\ m' = m /\ e' = e /\ cw' = cw
  /\ pc = "var_update" => pc' = "loop" /\ e' = e /\ cw' = cw /\ iter' = iter + 1
  /\ (pc # "entry" /\ <<best_cw, best_score>>' # <<best_cw, best_score>>)
     => pc = "early_exit" /\ score # NChecks
  /\ (pc # "entry" /\ iter' # iter) => pc = "var_update"

\* C19: in both decoders every iteration runs check update, hard decision,
\* early-exit test, best-so-far update, variable update in this order; the
\* hard decision and the exit test use the e of the check update of the same
\* iteration, and the next check update uses the m of the variable update
\* of the iteration before.
C19_PhaseOrder ==
  /\ [](Decoding => PhaseData)
  /\ [][Decoding => PhaseStep]_vars

\* The check update of the third iteration is about to run, on messages
\* that have changed the hard decision between the first two iterations.
C19_Witness ==
  /\ Decoding /\ pc = "check_update" /\ iter = 2
  /\ hist[1].cw # hist[2].cw
  /\ e # ZeroMatrix

\* The hard decision of iteration k scored NChecks.
SucceededAt(k) == hist[k].score = NChecks

\* The two exits.
ExitSuccess == Len(hist) >= 1 /\ SucceededAt(Len(hist)) /\ ok = NChecks /\ iter < iters
ExitExhausted == iter = iters /\ \A k \in 1 .. Len(hist) : ~SucceededAt(k)

\* C20: every decode call returns, after at most iters iterations, through
\* exactly one of the exits success and budget exhausted, and no iteration
\* runs after a successful one.
C20_Terminates ==
  /\ <>Returned
  /\ [](Decoding => /\ Len(hist) <= iters
                    /\ iter <= iters
                    /\ \A k \in 1 .. Len(hist) : SucceededAt(k) => k = Len(hist)
                    /\ Returned => (ExitSuccess /\ ~ExitExhausted) \/ (ExitExhausted /\ ~ExitSuccess))
  /\ [][Returned => UNCHANGED vars]_vars

\* A call that returned through the success exit in its second iteration,
\* with one iteration of its budget unused.
C20_Witness ==
  /\ Returned /\ iters = 3 /\ iter = 1
  /\ Len(hist) = 2 /\ SucceededAt(2)

\* The call q run on its own, from where it is to its return.
RECURSIVE par_alone(_, _)
par_alone(q, h) ==
  IF q.pc = "done" THEN q
  ELSE CHOOSE r \in {par_alone(n.q, n.h) :
                       n \in {[q |-> par_step(q, h, b, ZeroWord), h |-> par_heap(q, h, b)] :
                                b \in {CHOOSE b \in FreeBlocks(h) : TRUE}}} : TRUE

\* The results of a call.
ParOut(q) ==
  CASE q.fn = "check" -> <<q.ret>>
    [] q.fn \in {"prob", "log"} -> <<q.plain, q.ok>>
    [] q.fn = "crc" -> <<q.out>>
    [] q.fn = "gj" -> <<q.m, q.which, q.ok>>

\* The call that q is a run of, before its first step: the same arguments,
\* and for gauss_jordan the matrix and the row numbers it was given.
ParCallOf(q) ==
  IF q.fn = "gj"
  THEN [q EXCEPT !.pc = "entry", !.m = q.m0, !.which = [k \in GJRowIdx |-> k]]
  ELSE [q EXCEPT !.pc = "entry"]

ParRunning == procs # Idle
HoldsBlock(q) == q.fn = "crc" /\ q.pc \in {"divide", "copy"}

\* C17: two calls running at the same time on buffers of their own give,
\* under every interleaving, the results they give when run one after the
\* other; what they share is not written, and no two calls use the same
\* scratch block.
C17_Interleaved ==
  ParRunning
  => /\ \A p \in Procs :
          procs[p].pc = "done" => ParOut(procs[p]) = ParOut(par_alone(ParCallOf(procs[p]), NoHeap))
     /\ (HoldsBlock(procs[1]) /\ HoldsBlock(procs[2])) => procs[1].msg # procs[2].msg
     /\ \A b \in Blocks :
          heap[b] # <<>> => \E p \in Procs : HoldsBlock(procs[p]) /\ procs[p].msg = b

\* Call 1 of ft8_crc has returned its CRC while call 2 of ft8_crc, on another
\* message, is in the middle of its division on the other block.
C17_Witness ==
  /\ ParRunning
  /\ procs[1].fn = "crc" /\ procs[1].pc = "done"
  /\ procs[2].fn = "crc" /\ procs[2].pc = "divide" /\ procs[2].i = 1
  /\ procs[1].msg1 # procs[2].msg1
  /\ procs[1].msg # procs[2].msg
  /\ procs[1].out # Arr(CrcBits, 7)

\* ------------------------------------------- gauss_jordan, step by step

\* The rows after row r that have a 1 in column r of mm.
GJBelow(mm, r) == {row1 \in (r + 1) .. (GJCols - 1) : mm[row1][r] = 1}

\* The step of gauss_jordan that looks for a pivot for row gj.row.
GJPivotStep == gj.pc = "pivot" /\ gj'.pc = "test"

\* f2 is f with the entries a and b exchanged and nothing else changed.
GJExchanged(f, f2, a, b) ==
  /\ f2[a] = f[b] /\ f2[b] = f[a]
  /\ \A k \in GJRowIdx \ {a, b} : f2[k] = f[k]

\* C21 as stated: which is read and written only at the indices below
\* rows, so its entries from rows on are never exchanged.
C21_WhichInDeclared ==
  \A k \in GJRows .. (GJCols - 1) : gj.which[k] = gj.which0[k]

\* C22: at pivot step r, if m[r][r] = 1 neither m nor which changes;
\* otherwise row r is exchanged with the lowest row after r that has a 1 in
\* column r, whole rows of m and the two entries of which together, and
\* nothing else changes; with no such row nothing changes.
C22_PivotSwap ==
  [][GJPivotStep
     => LET r == gj.row
            below == GJBelow(gj.m, r)
        IN /\ gj.m[r][r] = 1 => (gj'.m = gj.m /\ gj'.which = gj.which)
           /\ (gj.m[r][r] # 1 /\ below = {}) => (gj'.m = gj.m /\ gj'.which = gj.which)
           /\ (gj.m[r][r] # 1 /\ below # {})
              => \E row1 \in below :
                   /\ \A k \in below : row1 <= k
                   /\ GJExchanged(gj.m, gj'.m, r, row1)
                   /\ GJExchanged(gj.which, gj'.which, r, row1)]_vars

\* Step 0 took the row rows, the first of two rows with a 1 in column 0.
C22_Witness ==
  /\ gj.pc = "test" /\ gj.row = 0
  /\ gj.which[0] = GJRows /\ gj.which[GJRows] = 0
  /\ gj.m[0][0] = 1
  /\ gj.m[GJCols - 1][0] = 1

\* C23: once pivot step r is complete, every column k <= r has exactly one
\* 1, in row k; on return with ok = 1 the top block of the left half is the
\* identity and the rows from rows on are zero in the left half.
C23_ReducedColumns ==
  /\ \A k \in GJPivots, row \in GJRowIdx :
        k < gj.row => gj.m[row][k] = (IF row = k THEN 1 ELSE 0)
  /\ (GJDone /\ gj.ok = 1)
     => \A row \in GJRowIdx, col \in GJPivots :
          gj.m[row][col] = (IF row = col THEN 1 ELSE 0)

\* A call has returned ok = 1 on a left half with a 1 in every entry of
\* column 0, so that step 0 cleared column 0 in every other row.
C23_Witness ==
  /\ GJDone /\ gj.ok = 1
  /\ \A row \in GJRowIdx : GJOrig(row, 0) = 1

\* C24: ok = 0 on return exactly when the call stopped at a step r at
\* which no row from r on has a 1 in column r; ok = 1 exactly when the left
\* half of all the rows has full column rank, all the steps then being done.
C24_OkExact ==
  GJDone
  => /\ gj.ok = 0 <=> /\ gj.row < GJRows
                      /\ \A row \in gj.row .. (GJCols - 1) : gj.m[row][gj.row] = 0
     /\ gj.ok = 1 <=> gj.row = GJRows
     /\ gj.ok = 1 <=> FullColumnRank

\* A call has returned ok = 1 with the last pivot row borrowed from the
\* rows after the top block, the first one being in place from the start.
C24_Witness ==
  /\ GJDone /\ gj.ok = 1
  /\ gj.which[0] = 0
  /\ gj.which[GJRows - 1] >= GJRows

\* C28: with the right half zero on entry, before the toggle of step r no
\* row has a 1 in a column rows + k with k >= r, so m[r][rows + r] is 0
\* just before the toggle and 1 after it.
C28_LazyIdentity ==
  /\ [](RightZero
        => \A row \in GJRowIdx, k \in GJPivots :
             k >= gj.row => gj.m[row][GJRows + k] = 0)
  /\ [][(RightZero /\ gj.pc = "test" /\ gj'.pc = "pivot")
        => /\ gj.m[gj.row][GJRows + gj.row] = 0
           /\ gj'.m[gj.row][GJRows + gj.row] = 1]_vars

\* The last step is about to toggle a row that was swapped in after step 0
\* had added row 0, with its toggled bit, to it.
C28_Witness ==
  /\ RightZero
  /\ gj.pc = "test" /\ gj.row = GJRows - 1
  /\ gj.m[gj.row][gj.row] = 1
  /\ gj.which[gj.row] # gj.which0[gj.row]
  /\ gj.m[gj.row][GJRows] = 1

\* C29: with a non-singular top block on entry, no pivot step exchanges a
\* row from rows on: the rows from rows on change only in the elimination,
\* their entries of which never change, the first rows entries of which
\* stay a permutation of their values on entry, and the call returns ok = 1.
C29_TopBlockOnly ==
  /\ [](TopNonSingular
        => /\ \A k \in GJRows .. (GJCols - 1) : gj.which[k] = gj.which0[k]
           /\ {gj.which[k] : k \in GJPivots} = {gj.which0[k] : k \in GJPivots}
           /\ Cardinality({gj.which[k] : k \in GJPivots}) = GJRows
           /\ GJDone => gj.ok = 1)
  /\ [][(TopNonSingular /\ GJPivotStep)
        => /\ \A row \in GJRows .. (GJCols - 1) : gj'.m[row] = gj.m[row]
           /\ (gj'.m # gj.m) => \E row1 \in (gj.row + 1) .. (GJRows - 1) :
                                   GJExchanged(gj.m, gj'.m, gj.row, row1)]_vars

\* A call on a non-singular top block has returned after a swap, with a
\* row after the top block that had a 1 in the column of the swap.
C29_Witness ==
  /\ TopNonSingular
  /\ GJDone /\ gj.ok = 1
  /\ \E k \in GJPivots : gj.which[k] # gj.which0[k]
  /\ \E row \in GJRows .. (GJCols - 1) : GJOrig(row, 0) = 1 /\ GJOrig(0, 0) = 0

\* ------------------------------------------------- ft8_crc as a function

\* The scratch array after the division loop from turn i on.
RECURSIVE CrcDivided(_, _, _)
CrcDivided(msg, msglen, i) ==
  IF ft8_crc_more([i |-> i, msglen |-> msglen])
  THEN CrcDivided(ft8_crc_xor(msg, i), msglen, i + 1)
  ELSE msg

\* out after ft8_crc(msg1, msglen, out).
CrcOf(msg1) ==
  LET msglen == MsgLen(msg1)
      msg == CrcDivided(ft8_crc_fill(msg1, msglen), msglen, 0)
  IN [k \in 0 .. (CrcBits - 1) |-> msg[msglen + k]]

\* The bitwise sum modulo 2 of two arrays over the same indices.
BitsXor(a, b) == [k \in DOMAIN a |-> Xor(a[k], b[k])]

\* C30: ft8_crc(a XOR b) = ft8_crc(a) XOR ft8_crc(b) for sequences a and b
\* of the same length (every pair of length up to MaxMsgLen); msg1 is as the caller passed it during and after the
\* call; every access of the scratch array is at an index from 0 to
\* msglen + 13.
C30_Linear ==
  /\ (CrcDone /\ crc.round = 1 /\ crc.msglen <= MaxMsgLen)
     => /\ crc.out = CrcOf(crc.msg1)
        /\ \A a \in Messages :
             MsgLen(a) = crc.msglen
             => crc.out = BitsXor(CrcOf(a), CrcOf(BitsXor(a, crc.msg1)))
  /\ crc.round = 1 => crc.msg1 = crc.sent
  /\ crc.round = 2
     => crc.msg1 = [k \in 0 .. (crc.msglen - 1) |->
                     IF k < crc.msglen - CrcBits THEN crc.sent[k]
                     ELSE crc.crc1[k - (crc.msglen - CrcBits)]]
  /\ crc.pc \in {"divide", "copy"}
     => DOMAIN heap[crc.msg] = 0 .. (crc.msglen + CrcBits - 1)
  /\ (crc.pc = "divide" /\ ft8_crc_more(crc))
     => \A j \in 0 .. (Len(div) - 1) : crc.i + j \in DOMAIN heap[crc.msg]
  /\ crc.pc = "copy"
     => \A k \in 0 .. (CrcBits - 1) : crc.msglen + k \in DOMAIN heap[crc.msg]

\* ft8_crc has returned for a message of the greatest length that is the
\* sum of two messages with different nonzero CRCs, its own CRC nonzero.
C30_Witness ==
  /\ CrcDone /\ crc.round = 1
  /\ crc.msglen = MaxMsgLen
  /\ crc.out # Arr(CrcBits, 0)
  /\ \E a \in Messages :
       /\ MsgLen(a) = crc.msglen
       /\ CrcOf(a) # Arr(CrcBits, 0)
       /\ CrcOf(a) # crc.out
       /\ CrcOf(BitsXor(a, crc.msg1)) # Arr(CrcBits, 0)

\* ------------------------------------------------ the decoders' messages

\* The bits (0-based) in the slots of row j of Nm, and the checks in the
\* slots of row i of Mn, in the order of the slots.
NmRow(j) == [k \in 1 .. NmCols |-> Nm[j][k - 1] - 1]
MnRow(i) == [k \in 1 .. MnCols |-> Mn[i][k - 1] - 1]

\* The bits of check j that are present and are not i1; the checks of bit i
\* that are not j1.
OtherBits(j, i1) == SelectSeq(NmRow(j), LAMBDA i2 : i2 >= 0 /\ i2 # i1)
OtherChecks(i, j1) == SelectSeq(MnRow(i), LAMBDA j2 : j2 # j1)

\* a times the entries of s, a plus the entries of s, and a times 1 - x for
\* the entries x of s, from left to right.
RECURSIVE ProdOf(_, _)
ProdOf(s, a) == IF s = <<>> THEN a ELSE ProdOf(Tail(s), FMul(a, Head(s)))
RECURSIVE SumOf(_, _)
SumOf(s, a) == IF s = <<>> THEN a ELSE SumOf(Tail(s), FAdd(a, Head(s)))
RECURSIVE ProdOneMinusOf(_, _)
ProdOneMinusOf(s, a) == IF s = <<>> THEN a ELSE ProdOneMinusOf(Tail(s), MulOneMinus(a, Head(s)))

\* The entries f[o[1]], f[o[2]], ... of f.
Picked(f, o) == [k \in 1 .. Len(o) |-> f[o[k]]]

\* The messages E[j][i] that the checks in o send to bit i.
FromChecks(i, o) == [k \in 1 .. Len(o) |-> e[o[k]][i]]

\* The product a of the check update of ldpc_decode_log for (j, i1): the
\* tanh of half of the message of every other bit of check j.
LogProduct(j, i1) ==
  ProdOf(Picked([i2 \in RowBits(j) |-> fast_tanh(FScale(m[j][i2], -1))], OtherBits(j, i1)), FOne)

\* The same for ldpc_decode.
ProbProduct(j, i1) ==
  ProdOf(Picked([i2 \in RowBits(j) |-> SignedProb(m[j][i2])], OtherBits(j, i1)), FOne)

\* q0 and q1 of ldpc_decode for bit i from the messages of the checks in o.
Q0(i, o) == ProdOf(FromChecks(i, o), codeword[i])
Q1(i, o) == ProdOneMinusOf(FromChecks(i, o), FSub(FOne, codeword[i]))

\* The states right after a check update, a hard decision, a variable update.
AfterCheckUpdate == pc = "hard_decision"
AfterHardDecision == pc = "early_exit"
AfterVarUpdate == pc = "loop" /\ iter > 0

\* C25: in both decoders the message of check j to bit i1 is made from the
\* messages M[j][i2] of exactly the other bits of the check, the message of
\* bit i to check j1 from the channel value and the messages E[j2][i] of
\* exactly the other checks of the bit, and the hard decision of bit i from
\* the channel value and the messages of all its checks.
C25_Extrinsic ==
  /\ (AfterCheckUpdate /\ fn = "log")
     => \A j \in Checks : \A i1 \in RowBits(j) :
          e[j][i1] = ldpc_decode_log_tmp(LogProduct(j, i1))
  /\ (AfterCheckUpdate /\ fn = "prob")
     => \A j \in Checks : \A i1 \in RowBits(j) :
          e[j][i1] = FAdd(FHalf, FScale(ProbProduct(j, i1), -1))
  /\ (AfterHardDecision /\ fn = "log")
     => \A i \in Bits :
          cw[i] = 1 <=> FLe(SumOf(FromChecks(i, MnRow(i)), llcodeword[i]), FZero)
  /\ (AfterHardDecision /\ fn = "prob")
     => \A i \in Bits :
          cw[i] = 1 <=> FLe(ldpc_decode_p(<<Q0(i, MnRow(i)), Q1(i, MnRow(i))>>), FHalf)
  /\ (AfterVarUpdate /\ fn = "log")
     => \A i \in Bits : \A k \in 1 .. MnCols :
          m[MnRow(i)[k]][i] = SumOf(FromChecks(i, OtherChecks(i, MnRow(i)[k])), llcodeword[i])
  /\ (AfterVarUpdate /\ fn = "prob")
     => \A i \in Bits : \A k \in 1 .. MnCols :
          m[MnRow(i)[k]][i] = ldpc_decode_p(<<Q0(i, OtherChecks(i, MnRow(i)[k])),
                                             Q1(i, OtherChecks(i, MnRow(i)[k]))>>)

\* ldpc_decode_log has made a variable update in which a message to a check
\* differs from what it would be with the message of that check added, and
\* the check update before it sent a message that the bit's own message
\* would have changed.
C25_Witness ==
  /\ AfterVarUpdate /\ fn = "log"
  /\ \E i \in Bits : \E k \in 1 .. MnCols :
       m[MnRow(i)[k]][i] # SumOf(FromChecks(i, MnRow(i)), llcodeword[i])
  /\ \E j \in Checks : \E i1 \in RowBits(j) :
       /\ e[j][i1] # F7_6
       /\ e[j][i1] # FNeg(F7_6)

\* a >= 0.999 and a <= -0.999 for a float a, by exact arithmetic on the
\* significand: 0.999 * 2^24 = 2^24 - 2^24 / 1000.
AtLeast0999(a) ==
  /\ a.s = 0 /\ a.m >= HalfMant
  /\ \/ a.e > 0 - MantBits
     \/ /\ a.e = 0 - MantBits
        /\ 2 * HalfMant - a.m <= 20000
        /\ (2 * HalfMant - a.m) * 1000 <= 2 * HalfMant
AtMostMinus0999(a) == a.s = 1 /\ AtLeast0999([a EXCEPT !.s = 0])

\* C26: in the check update of ldpc_decode_log the message is exactly 7.6
\* when a >= 0.999 and exactly -7.6 when a <= -0.999; otherwise it is the
\* logarithm of (1 + a) / (1 - a), with 1 + a and 1 - a both above 0.
C26_LogClamp ==
  (AfterCheckUpdate /\ fn = "log")
  => \A j \in Checks : \A i1 \in RowBits(j) :
       /\ AtLeast0999(LogProduct(j, i1)) => e[j][i1] = F7_6
       /\ AtMostMinus0999(LogProduct(j, i1)) => e[j][i1] = FNeg(F7_6)
       /\ (~AtLeast0999(LogProduct(j, i1)) /\ ~AtMostMinus0999(LogProduct(j, i1)))
          => /\ FLt(FZero, FAdd(FOne, LogProduct(j, i1)))
             /\ FLt(FZero, FSub(FOne, LogProduct(j, i1)))
             /\ e[j][i1] = FLog(FDiv(FAdd(FOne, LogProduct(j, i1)),
                                     FSub(FOne, LogProduct(j, i1))))

\* One check update of ldpc_decode_log has clamped a product from 0.999 to
\* below 1 and one of at most -0.999, and has taken the logarithm for
\* another.
C26_Witness ==
  /\ AfterCheckUpdate /\ fn = "log"
  /\ \E j \in Checks : \E i1 \in RowBits(j) :
       AtLeast0999(LogProduct(j, i1)) /\ FLt(LogProduct(j, i1), FOne)
  /\ \E j \in Checks : \E i1 \in RowBits(j) : AtMostMinus0999(LogProduct(j, i1))
  /\ \E j \in Checks : \E i1 \in RowBits(j) :
       ~AtLeast0999(LogProduct(j, i1)) /\ ~AtMostMinus0999(LogProduct(j, i1))

\* C27: in ldpc_decode, where q0 is 0 the hard decision of the bit is 0 and
\* the message of the variable update is exactly 1.
C27_ZeroGuard ==
  /\ (AfterHardDecision /\ fn = "prob")
     => \A i \in Bits : IsZero(Q0(i, MnRow(i))) => cw[i] = 0
  /\ (AfterVarUpdate /\ fn = "prob")
     => \A i \in Bits : \A k \in 1 .. MnCols :
          IsZero(Q0(i, OtherChecks(i, MnRow(i)[k]))) => m[MnRow(i)[k]][i] = FOne

\* ldpc_decode has made a variable update with a q0 of 0, after a hard
\* decision with a q0 of 0 and a q1 above 0.
C27_Witness ==
  /\ AfterVarUpdate /\ fn = "prob"
  /\ \E i \in Bits : \E k \in 1 .. MnCols :
       /\ IsZero(Q0(i, OtherChecks(i, MnRow(i)[k])))
       /\ ~IsZero(Q1(i, OtherChecks(i, MnRow(i)[k])))
  /\ \E i \in Bits :
       /\ IsZero(Q0(i, MnRow(i)))
       /\ ~IsZero(Q1(i, MnRow(i)))
       /\ cw[i] = 0

=============================================================================
